---- MODULE Spec2Model ----
(***************************************************************************)
(* A model of atest's command line translator (atest/cli_translator.py):   *)
(* the reference classifier, the resolution strategies, the two-level      *)
(* filter merge and the translate() driver.                                *)
(*                                                                         *)
(* Strings are sequences of tokens.  A token is either one of the          *)
(* characters the code inspects ("." "/" ":" "#" ",") or a word, a chunk   *)
(* of characters holding none of them.  No word of the vocabulary can be   *)
(* spelled by concatenating other tokens, so two token sequences are equal *)
(* exactly when the strings they spell are equal; and wherever the code    *)
(* takes a prefix, a suffix or a substring, the strings of the model split *)
(* on token boundaries, so that these operations on tokens are the         *)
(* character-wise ones of Python.  A name that has another name as a       *)
(* proper prefix is spelled with two words ("tf" "2" for tf2 next to tf),  *)
(* which keeps the prefix visible to os.path.commonprefix.  The model has  *)
(* no symbolic links: os.path.realpath only normalises.                    *)
(***************************************************************************)
EXTENDS Integers, Sequences, FiniteSets, TLC

\* ------------------------------------------------------------------------
\* Bounds of the model
\* ------------------------------------------------------------------------
\* longest identifier (in tokens) handed to the classifier on its own
MaxRefLen == 3
\* most identifiers on one command line
MaxTests == 2
\* largest number raw_input returns when asked to pick a file
MaxAnswer == 1
\* most filters in a set handed to the filter merge on its own
MaxFilters == 3
\* most descriptors in a set handed to the module merge on its own
MaxInfos == 3
\* the lines of a find output given to _extract_test_path on its own
MaxMatches == 3
\* the option tags of a config file given to _get_targets_from_xml
MaxOptions == 3
\* longest 'path' list of a module-info.json entry given to ModuleInfo
MaxPaths == 2

\* ------------------------------------------------------------------------
\* Python's None
\* ------------------------------------------------------------------------
\* (as a string value: a token sequence no identifier or file name spells)
None == <<"None">>

\* ------------------------------------------------------------------------
\* str helpers
\* ------------------------------------------------------------------------
\* t in s, for a single character t
Contains(s, t) == \E i \in 1..Len(s) : s[i] = t

\* sub in s, for a string sub
ContainsSeq(s, sub) ==
    \E i \in 0..(Len(s) - Len(sub)) :
        \A j \in 1..Len(sub) : s[i + j] = sub[j]

\* s.startswith(pre)
StartsWith(s, pre) ==
    /\ Len(pre) <= Len(s)
    /\ \A j \in 1..Len(pre) : s[j] = pre[j]

\* s.endswith(suf)
EndsWith(s, suf) ==
    /\ Len(suf) <= Len(s)
    /\ \A j \in 1..Len(suf) : s[Len(s) - Len(suf) + j] = suf[j]

\* number of occurrences of the character t in s
RECURSIVE Count(_, _)
Count(s, t) ==
    IF s = <<>> THEN 0
    ELSE (IF Head(s) = t THEN 1 ELSE 0) + Count(Tail(s), t)

\* s.split(sep): the list of the pieces of s between the separators
RECURSIVE Split(_, _)
Split(s, sep) ==
    IF ~Contains(s, sep) THEN <<s>>
    ELSE LET i == CHOOSE k \in 1..Len(s) :
                      s[k] = sep /\ \A j \in 1..(k - 1) : s[j] # sep
         IN  <<SubSeq(s, 1, i - 1)>> \o Split(SubSeq(s, i + 1, Len(s)), sep)

\* s.replace(a, b) for single characters
Replace(s, a, b) == [i \in 1..Len(s) |-> IF s[i] = a THEN b ELSE s[i]]

\* ------------------------------------------------------------------------
\* REFERENCE_TYPE and the classifier
\* ------------------------------------------------------------------------
REFERENCE_TYPE ==
    <<"MODULE", "CLASS", "QUALIFIED_CLASS", "MODULE_CLASS", "PACKAGE",
      "MODULE_PACKAGE", "FILE_PATH", "INTEGRATION", "SUITE">>

RefTypeNames == {REFERENCE_TYPE[i] : i \in 1..Len(REFERENCE_TYPE)}

\* ------------------------------------------------------------------------
\* os.path helpers (posixpath), on token strings
\* ------------------------------------------------------------------------
\* index of the last occurrence of the character t in s, 0 when absent
RFind(s, t) ==
    IF Contains(s, t)
    THEN CHOOSE k \in 1..Len(s) :
             s[k] = t /\ \A j \in (k + 1)..Len(s) : s[j] # t
    ELSE 0

\* s.rstrip('/')
RECURSIVE RStripSlash(_)
RStripSlash(s) ==
    IF s # <<>> /\ s[Len(s)] = "/" THEN RStripSlash(SubSeq(s, 1, Len(s) - 1))
    ELSE s

\* os.path.join(a, b)
PathJoin(a, b) ==
    IF StartsWith(b, <<"/">>) THEN b
    ELSE IF a = <<>> \/ EndsWith(a, <<"/">>) THEN a \o b
    ELSE a \o <<"/">> \o b

\* os.path.split(p): <<head, tail>>
PathSplit(p) ==
    LET i    == RFind(p, "/")
        head == SubSeq(p, 1, i)
        tail == SubSeq(p, i + 1, Len(p))
    IN  <<IF RStripSlash(head) # <<>> THEN RStripSlash(head) ELSE head, tail>>

\* os.path.dirname(p)
Dirname(p) == PathSplit(p)[1]

\* os.path.splitext(p)[0]: p without the extension of its last component
SplitextRoot(p) ==
    LET sepIndex == RFind(p, "/")
        dotIndex == RFind(p, ".")
    IN  IF dotIndex > sepIndex /\
           (\E j \in (sepIndex + 1)..(dotIndex - 1) : p[j] # ".")
        THEN SubSeq(p, 1, dotIndex - 1)
        ELSE p

\* the components of a path: the non-empty pieces between the slashes
Comps(p) == SelectSeq(Split(p, "/"), LAMBDA c : c # <<>>)

\* '/' + '/'.join(comps)
RECURSIVE JoinComps(_)
JoinComps(comps) ==
    IF comps = <<>> THEN <<>>
    ELSE <<"/">> \o Head(comps) \o JoinComps(Tail(comps))

\* os.path.normpath of an absolute path: '.' dropped, '..' pops a component
RECURSIVE NormComps(_, _)
NormComps(comps, acc) ==
    IF comps = <<>> THEN acc
    ELSE LET c == Head(comps)
         IN  IF c = <<".">> THEN NormComps(Tail(comps), acc)
             ELSE IF c = <<".", ".">>
             THEN NormComps(Tail(comps),
                            IF acc = <<>> THEN acc
                            ELSE SubSeq(acc, 1, Len(acc) - 1))
             ELSE NormComps(Tail(comps), Append(acc, c))

AbsPathOf(comps) == IF comps = <<>> THEN <<"/">> ELSE JoinComps(comps)

\* os.path.realpath(p) with working directory cwd (no symbolic links)
Realpath(cwd, p) == AbsPathOf(NormComps(Comps(PathJoin(cwd, p)), <<>>))

\* length of the longest common prefix of two component lists
RECURSIVE CommonLen(_, _)
CommonLen(a, b) ==
    IF a = <<>> \/ b = <<>> \/ Head(a) # Head(b) THEN 0
    ELSE 1 + CommonLen(Tail(a), Tail(b))

RECURSIVE JoinRel(_)
JoinRel(comps) ==
    IF comps = <<>> THEN <<>>
    ELSE IF Len(comps) = 1 THEN Head(comps)
    ELSE Head(comps) \o <<"/">> \o JoinRel(Tail(comps))

\* os.path.relpath(path, start) for absolute path and start
Relpath(path, start) ==
    LET pc  == NormComps(Comps(path), <<>>)
        sc  == NormComps(Comps(start), <<>>)
        i   == CommonLen(pc, sc)
        ups == [k \in 1..(Len(sc) - i) |-> <<".", ".">>]
        rel == ups \o SubSeq(pc, i + 1, Len(pc))
    IN  IF rel = <<>> THEN <<".">> ELSE JoinRel(rel)

\* ------------------------------------------------------------------------
\* Module constants of cli_translator.py
\* ------------------------------------------------------------------------
MODULE_CONFIG == <<"AndroidTest", ".", "xml">>
TF_TARGETS == << <<"tradefed">>, <<"tradefed", "-", "contrib">> >>
GTF_TARGETS == << <<"google", "-", "tradefed">>,
                  <<"google", "-", "tradefed", "-", "contrib">> >>
PERF_SETUP_LABEL == <<"perf", "-", "setup", ".", "sh">>
TEST_MODULE_NAME == <<"test", "-", "module", "-", "name">>
DotJava == <<".", "java">>
DotXml == <<".", "xml">>
DotApk == <<".", "apk">>
ResConfig == <<"/", "res", "/", "config", "/">>

\* ------------------------------------------------------------------------
\* The environment of a run: the repository on disk, the working directory
\* and the content of module-info.json.
\*   t.hasC       /r/m/p/C.java exists
\*   t.hasPkg     ... and declares "package p;"
\*   t.installed  module M of the index has an installed artifact
\*   t.tf         module tradefed is in the index (path tf): one
\*                integration-config root
\*   t.hasI       /r/tf/res/config/i.xml exists
\*   t.iMod       the index also has an installed module named i (path m)
\*   t.noPath     the index entry of M has no 'path' key
\* ------------------------------------------------------------------------
Toggles ==
    {t \in [hasC : BOOLEAN, hasPkg : BOOLEAN, installed : BOOLEAN,
            tf : BOOLEAN, hasI : BOOLEAN, iMod : BOOLEAN,
            noPath : BOOLEAN] :
        /\ (t.hasPkg => t.hasC) /\ (t.hasI => t.tf)
        /\ (t.noPath => t.installed /\ t.hasPkg /\ ~t.tf /\ ~t.iMod)}

RootDir == <<"/", "r">>
ModDir == RootDir \o <<"/", "m">>
RelModDir == <<"m">>
ModConfig == ModDir \o <<"/">> \o MODULE_CONFIG
ClassFile == ModDir \o <<"/", "p", "/", "C">> \o DotJava
TfDir == RootDir \o <<"/", "tf">>
IntConfig == TfDir \o ResConfig \o <<"i">> \o DotXml
ApkOfM == <<"out", "/", "M", ".", "apk">>

Range(f) == {f[x] : x \in DOMAIN f}

MkWorld(t) ==
    [root_dir |-> RootDir,
     cwd |-> RootDir,
     dirs |-> {<<"/">>, RootDir, ModDir, ModDir \o <<"/", "p">>,
               TfDir, TfDir \o <<"/", "res">>,
               TfDir \o <<"/", "res", "/", "config">>},
     \* every directory and file, in the order a find over "/" prints them
     tree |-> <<<<"/">>, RootDir, ModDir, ModConfig, ModDir \o <<"/", "p">>>>
              \o (IF t.hasC THEN <<ClassFile>> ELSE <<>>)
              \o <<TfDir, TfDir \o <<"/", "res">>,
                   TfDir \o <<"/", "res", "/", "config">>>>
              \o (IF t.hasI THEN <<IntConfig>> ELSE <<>>),
     \* the package a java file declares (None: no package line)
     package |-> [f \in {ClassFile} |-> IF t.hasPkg THEN <<"p">> ELSE None],
     \* the <option> tags of a config file
     options |-> [f \in {ModConfig, IntConfig} |->
                    IF f = ModConfig
                    THEN << [name |-> <<"test", "-", "file", "-", "name">>,
                             value |-> <<"M">> \o DotApk] >>
                    ELSE <<>>],
     out_dir |-> RootDir \o <<"/", "out">>,
     results_dir |-> <<"/", "tmp">>,
     \* module-info.json, and the order in which the dict iterates; an
     \* entry is its 'path' list (has_path: the key is there) and its
     \* 'installed' list
     module_order |-> << <<"M">> >>
                      \o (IF t.iMod THEN << <<"i">> >> ELSE <<>>)
                      \o (IF t.tf THEN << <<"tradefed">> >> ELSE <<>>),
     module_info |->
        [n \in {<<"M">>} \cup (IF t.iMod THEN {<<"i">>} ELSE {})
                         \cup (IF t.tf THEN {<<"tradefed">>} ELSE {}) |->
            IF n = <<"M">>
            THEN [has_path |-> ~t.noPath,
                  path |-> IF t.noPath THEN <<>> ELSE <<RelModDir>>,
                  installed |-> IF t.installed THEN <<ApkOfM>> ELSE <<>>]
            ELSE IF n = <<"i">>
            THEN [has_path |-> TRUE,
                  path |-> <<RelModDir>>,
                  installed |-> << <<"out", "/", "i", ".", "apk">> >>]
            ELSE [has_path |-> TRUE,
                  path |-> << <<"tf">> >>,
                  installed |-> << <<"out", "/", "tradefed", ".", "jar">> >>]],
     \* the TEST_MAPPING files: none
     test_mapping |-> [d \in {} |-> {}]]

Worlds == {MkWorld(t) : t \in Toggles}

\* ------------------------------------------------------------------------
\* The environments the methods are called in one at a time: a larger
\* repository.
\*   t.cwd      the working directory
\*   t.rootCfg, t.mCfg, t.pCfg, t.r2Cfg
\*              AndroidTest.xml exists in /r, /r/m, /r/m/p, /r2
\*   t.cls      "none", "one" (/r/m/p/C.java), "two" (and /r/m/q/C.java)
\*   t.pkg      the class files declare their package (p, q)
\*   t.index    module M (path m) in the index: "ok" installed, "off" not
\*              installed, "gone" no entry; or M installed and an entry X
\*              without a 'path' key ("nopath") or with an empty 'path'
\*              list ("empty") that the dict iterates first, or X without
\*              a 'path' key that the dict iterates last ("late")
\*   t.tfI      the configs named i below the root of tradefed (tf):
\*              "none", "i" (res/config/i.xml), "sub"
\*              (res/config/sub/i.xml), "other" (other/i.xml), "two"
\*              (res/config/i.xml and other/i.xml)
\*   t.gtf      google-tradefed (path gtf): "noroot" not in the index,
\*              "root" in the index, "i" and gtf/res/config/i.xml exists
\* /r/tf2 is the directory of the installed module T, next to tf; /r2 is
\* a directory next to the repository root /r; /r/n/o has no module.
\* ------------------------------------------------------------------------
Repo ==
    [p         |-> ModDir \o <<"/", "p">>,
     q         |-> ModDir \o <<"/", "q">>,
     classQ    |-> ModDir \o <<"/", "q", "/", "C">> \o DotJava,
     n         |-> RootDir \o <<"/", "n">>,
     o         |-> RootDir \o <<"/", "n", "/", "o">>,
     tfRes     |-> TfDir \o <<"/", "res">>,
     tfConfig  |-> TfDir \o <<"/", "res", "/", "config">>,
     tfSub     |-> TfDir \o <<"/", "res", "/", "config", "/", "sub">>,
     tfOther   |-> TfDir \o <<"/", "other">>,
     intSub    |-> TfDir \o ResConfig \o <<"sub", "/", "i">> \o DotXml,
     intOther  |-> TfDir \o <<"/", "other", "/", "i">> \o DotXml,
     gtf       |-> RootDir \o <<"/", "gtf">>,
     gtfRes    |-> RootDir \o <<"/", "gtf", "/", "res">>,
     gtfConfig |-> RootDir \o <<"/", "gtf", "/", "res", "/", "config">>,
     gtfInt    |-> RootDir \o <<"/", "gtf">> \o ResConfig \o <<"i">> \o DotXml,
     tf2       |-> RootDir \o <<"/", "tf", "2">>,
     tf2Config |-> RootDir \o <<"/", "tf", "2", "/">> \o MODULE_CONFIG,
     r2        |-> <<"/", "r", "2">>]

CallBase ==
    [cwd |-> RootDir, rootCfg |-> FALSE, mCfg |-> TRUE, pCfg |-> FALSE,
     r2Cfg |-> FALSE, cls |-> "one", pkg |-> TRUE, index |-> "ok",
     tfI |-> "i", gtf |-> "root"]

CallWorld(t) ==
    LET \* dir/AndroidTest.xml when it exists
        ConfigIn(dir, on) ==
            IF on THEN << dir \o <<"/">> \o MODULE_CONFIG >> ELSE <<>>
    IN
    [root_dir |-> RootDir,
     cwd |-> t.cwd,
     dirs |-> {<<"/">>, RootDir, ModDir, Repo.p, Repo.q, Repo.n, Repo.o, TfDir,
               Repo.tfRes, Repo.tfConfig, Repo.tfSub, Repo.tfOther,
               Repo.gtf, Repo.gtfRes, Repo.gtfConfig, Repo.tf2,
               Repo.r2},
     tree |-> << <<"/">>, RootDir >> \o ConfigIn(RootDir, t.rootCfg)
              \o <<ModDir>> \o ConfigIn(ModDir, t.mCfg)
              \o <<Repo.p>> \o ConfigIn(Repo.p, t.pCfg)
              \o (IF t.cls # "none" THEN <<ClassFile>> ELSE <<>>)
              \o <<Repo.q>>
              \o (IF t.cls = "two" THEN <<Repo.classQ>> ELSE <<>>)
              \o <<Repo.n, Repo.o>>
              \o <<TfDir, Repo.tfRes, Repo.tfConfig>>
              \o (IF t.tfI \in {"i", "two"} THEN <<IntConfig>> ELSE <<>>)
              \o <<Repo.tfSub>>
              \o (IF t.tfI = "sub" THEN <<Repo.intSub>> ELSE <<>>)
              \o <<Repo.tfOther>>
              \o (IF t.tfI \in {"other", "two"} THEN <<Repo.intOther>>
                  ELSE <<>>)
              \o <<Repo.gtf, Repo.gtfRes, Repo.gtfConfig>>
              \o (IF t.gtf = "i" THEN <<Repo.gtfInt>> ELSE <<>>)
              \o <<Repo.tf2, Repo.tf2Config>>
              \o <<Repo.r2>> \o ConfigIn(Repo.r2, t.r2Cfg),
     package |-> [f \in {ClassFile, Repo.classQ} |->
                    IF ~t.pkg THEN None
                    ELSE IF f = ClassFile THEN <<"p">> ELSE <<"q">>],
     options |-> [f \in {RootDir \o <<"/">> \o MODULE_CONFIG, ModConfig,
                         Repo.p \o <<"/">> \o MODULE_CONFIG, Repo.tf2Config,
                         Repo.r2 \o <<"/">> \o MODULE_CONFIG, IntConfig,
                         Repo.intSub, Repo.intOther, Repo.gtfInt} |->
                    <<>>],
     out_dir |-> RootDir \o <<"/", "out">>,
     results_dir |-> <<"/", "tmp">>,
     module_order |->
        (IF t.index \in {"nopath", "empty"} THEN << <<"X">> >> ELSE <<>>)
        \o (IF t.index # "gone" THEN << <<"M">> >> ELSE <<>>)
        \o << <<"T">>, <<"tradefed">> >>
        \o (IF t.gtf # "noroot" THEN << <<"google", "-", "tradefed">> >>
            ELSE <<>>)
        \o (IF t.index = "late" THEN << <<"X">> >> ELSE <<>>),
     module_info |->
        [n \in {<<"T">>, <<"tradefed">>}
               \cup (IF t.index # "gone" THEN {<<"M">>} ELSE {})
               \cup (IF t.index \in {"nopath", "empty", "late"}
                     THEN {<<"X">>} ELSE {})
               \cup (IF t.gtf # "noroot"
                     THEN {<<"google", "-", "tradefed">>} ELSE {}) |->
            IF n = <<"M">>
            THEN [has_path |-> TRUE, path |-> <<RelModDir>>,
                  installed |-> IF t.index = "off" THEN <<>>
                                ELSE <<ApkOfM>>]
            ELSE IF n = <<"X">>
            THEN [has_path |-> t.index = "empty", path |-> <<>>,
                  installed |-> << <<"out", "/", "X", ".", "apk">> >>]
            ELSE IF n = <<"T">>
            THEN [has_path |-> TRUE, path |-> << <<"tf", "2">> >>,
                  installed |-> << <<"out", "/", "T", ".", "apk">> >>]
            ELSE IF n = <<"tradefed">>
            THEN [has_path |-> TRUE, path |-> << <<"tf">> >>,
                  installed |-> << <<"out", "/", "tradefed", ".", "jar">> >>]
            ELSE [has_path |-> TRUE, path |-> << <<"gtf">> >>,
                  installed |-> << <<"out", "/", "gtf", ".", "jar">> >>]],
     test_mapping |-> [d \in {} |-> {}]]

\* os.path.isdir, os.path.isfile, os.path.exists
IsDir(w, p) == p \in w.dirs
Exists(w, p) == p \in Range(w.tree)
IsFile(w, p) == Exists(w, p) /\ ~IsDir(w, p)

\* ------------------------------------------------------------------------
\* Lookups in the module index
\* ------------------------------------------------------------------------
\* _get_module_path: the first path of a module, None if no module found
_get_module_path(w, module_name) ==
    IF module_name \in DOMAIN w.module_info
    THEN w.module_info[module_name].path[1]
    ELSE None

\* filter(None, [self._get_module_path(x) for x in targets])
ModulePaths(w, targets) ==
    SelectSeq([i \in 1..Len(targets) |-> _get_module_path(w, targets[i])],
              LAMBDA d : d # None /\ d # <<>>)

\* _get_integration_dirs and self.integration_dirs = tf_dirs + gtf_dirs
tf_dirs(w) == ModulePaths(w, TF_TARGETS)
gtf_dirs(w) == ModulePaths(w, GTF_TARGETS)
integration_dirs(w) == tf_dirs(w) \o gtf_dirs(w)

\* ------------------------------------------------------------------------
\* TestFilter, TestInfo and what a strategy hands back
\* ------------------------------------------------------------------------
TestFilter(class_name, methods) ==
    [class_name |-> class_name, methods |-> methods]

TestInfo(rel_config, module_name, integrated_name, filters) ==
    [rel_config |-> rel_config, module_name |-> module_name,
     integrated_name |-> integrated_name, filters |-> filters]

NoInfo == TestInfo(None, None, None, {})

\* A call ends by returning a TestInfo, by returning None or by raising;
\* io lists the accesses it made, in order: "index" (a lookup in
\* module-info), "find" (a find command), "stat" (os.path.exists, isdir,
\* isfile), "read" (a file opened and read), "prompt" (raw_input).
Return(info, io) == [kind |-> "info", info |-> info, error |-> "", io |-> io]
ReturnNone(io) == [kind |-> "none", info |-> NoInfo, error |-> "", io |-> io]
Raise(e, io) == [kind |-> "raise", info |-> NoInfo, error |-> e, io |-> io]
\* the call never returns (a loop that does not end)
Hang(io) == [kind |-> "hang", info |-> NoInfo, error |-> "", io |-> io]

\* ------------------------------------------------------------------------
\* _get_test_reference_types
\* ------------------------------------------------------------------------
\* (mutant) the ':' rule is tested before the '/' rule
_get_test_reference_types_colon_first(self, ref) ==
    IF StartsWith(ref, <<".">>) \/ ContainsSeq(ref, <<".", ".">>)
    THEN <<"FILE_PATH">>
    ELSE IF Contains(ref, ":")
    THEN IF Contains(ref, ".")
         THEN <<"MODULE_CLASS", "MODULE_PACKAGE", "INTEGRATION">>
         ELSE <<"MODULE_CLASS", "INTEGRATION">>
    ELSE IF Contains(ref, "/")
    THEN IF StartsWith(ref, <<"/">>)
         THEN <<"FILE_PATH">>
         ELSE <<"FILE_PATH", "INTEGRATION">>
    ELSE IF Contains(ref, ".")
    THEN <<"FILE_PATH", "QUALIFIED_CLASS", "PACKAGE">>
    ELSE <<"INTEGRATION", "MODULE", "CLASS">>

\* (mutant) INTEGRATION is a candidate only when the index lists an
\* integration-config root
_get_test_reference_types_by_index(self, ref) ==
    LET int == IF integration_dirs(self) = <<>> THEN <<>>
               ELSE <<"INTEGRATION">>
    IN  IF StartsWith(ref, <<".">>) \/ ContainsSeq(ref, <<".", ".">>)
        THEN <<"FILE_PATH">>
        ELSE IF Contains(ref, "/")
        THEN IF StartsWith(ref, <<"/">>)
             THEN <<"FILE_PATH">>
             ELSE <<"FILE_PATH">> \o int
        ELSE IF Contains(ref, ":")
        THEN IF Contains(ref, ".")
             THEN <<"MODULE_CLASS", "MODULE_PACKAGE">> \o int
             ELSE <<"MODULE_CLASS">> \o int
        ELSE IF Contains(ref, ".")
        THEN <<"FILE_PATH", "QUALIFIED_CLASS", "PACKAGE">>
        ELSE int \o <<"MODULE", "CLASS">>

_get_test_reference_types(self, ref) ==
    IF StartsWith(ref, <<".">>) \/ ContainsSeq(ref, <<".", ".">>)
    THEN <<"FILE_PATH">>
    ELSE IF Contains(ref, "/")
    THEN IF StartsWith(ref, <<"/">>)
         THEN <<"FILE_PATH">>
         ELSE <<"FILE_PATH", "INTEGRATION">>
    ELSE IF Contains(ref, ":")
    THEN IF Contains(ref, ".")
         THEN <<"MODULE_CLASS", "MODULE_PACKAGE", "INTEGRATION">>
         ELSE <<"MODULE_CLASS", "INTEGRATION">>
    ELSE IF Contains(ref, ".")
    THEN <<"FILE_PATH", "QUALIFIED_CLASS", "PACKAGE">>
    ELSE <<"INTEGRATION", "MODULE", "CLASS">>

\* ------------------------------------------------------------------------
\* _split_methods
\* ------------------------------------------------------------------------
\* [ok |-> FALSE] stands for raise TooManyMethodsError
_split_methods(user_input) ==
    LET parts == Split(user_input, "#")
    IN  IF Len(parts) = 1
        THEN [ok |-> TRUE, ref |-> parts[1], methods |-> {}]
        ELSE IF Len(parts) = 2
        THEN [ok |-> TRUE, ref |-> parts[1],
              methods |-> Range(Split(parts[2], ","))]
        ELSE [ok |-> FALSE, ref |-> <<>>, methods |-> {}]

\* ------------------------------------------------------------------------
\* The filesystem probe
\* ------------------------------------------------------------------------
\* what "find dir" visits: dir and everything below it, in find's order
Under(w, dir) ==
    SelectSeq(w.tree,
              LAMBDA p : p = dir \/ dir = <<"/">> \/ StartsWith(p, dir \o <<"/">>))

\* FIND_CMDS[CLASS]: the regular files named class_name.java.  (The
\* -prune of the command never applies: the shell hands find the pattern
\* with its double quotes, which no directory name of the model holds.)
FindClass(w, search_dir, class_name) ==
    SelectSeq(Under(w, search_dir),
              LAMBDA p : IsFile(w, p) /\ PathSplit(p)[2] = class_name \o DotJava)

\* FIND_CMDS[QUALIFIED_CLASS], FIND_CMDS[INTEGRATION]: every path (file or
\* directory) whose whole name ends with the given text
FindWholename(w, search_dir, suffix) ==
    SelectSeq(Under(w, search_dir), LAMBDA p : EndsWith(p, suffix))

\* (mutant) more than one line: the first is taken and nothing is asked
_extract_test_path_first(output, answer) ==
    IF output = <<>>
    THEN [kind |-> "none", path |-> None, error |-> "", io |-> <<>>]
    ELSE [kind |-> "path", path |-> output[1], error |-> "", io |-> <<>>]

\* _extract_test_path: answer is the number raw_input returns when asked;
\* tests[test_index] counts a negative index from the end of the list
_extract_test_path(output, answer) ==
    IF output = <<>>
    THEN [kind |-> "none", path |-> None, error |-> "", io |-> <<>>]
    ELSE IF Len(output) > 1
    THEN IF answer < Len(output) /\ answer >= 0 - Len(output)
         THEN [kind |-> "path",
               path |-> output[IF answer >= 0 THEN answer + 1
                               ELSE Len(output) + answer + 1],
               error |-> "", io |-> <<"prompt">>]
         ELSE [kind |-> "raise", path |-> None, error |-> "IndexError",
               io |-> <<"prompt">>]
    ELSE [kind |-> "path", path |-> output[1], error |-> "", io |-> <<>>]

\* _find_class_file
_find_class_file(w, class_name, search_dir, answer) ==
    IF ~Exists(w, search_dir)
    THEN [kind |-> "raise", path |-> None, error |-> "CalledProcessError",
          io |-> <<"find">>]
    ELSE LET out == IF Contains(class_name, ".")
                    THEN FindWholename(w, search_dir,
                             Replace(class_name, ".", "/") \o DotJava)
                    ELSE FindClass(w, search_dir, class_name)
             r   == _extract_test_path(out, answer)
         IN  [r EXCEPT !.io = <<"find">> \o r.io]

\* _get_fully_qualified_class_name
_get_fully_qualified_class_name(w, test_path) ==
    IF ~IsFile(w, test_path)
    THEN [ok |-> FALSE, name |-> None, error |-> "IOError"]
    ELSE IF w.package[test_path] = None
    THEN [ok |-> FALSE, name |-> None, error |-> "MissingPackageNameError"]
    ELSE [ok |-> TRUE,
          name |-> w.package[test_path] \o <<".">>
                   \o SplitextRoot(PathSplit(test_path)[2]),
          error |-> ""]

\* _is_equal_or_sub_dir
_is_equal_or_sub_dir(w, sub_dir, parent_dir) ==
    LET parent == Realpath(w.cwd, parent_dir)
        sub    == Realpath(w.cwd, sub_dir)
    IN  IF ~IsDir(w, sub) \/ ~IsDir(w, parent) THEN FALSE
        ELSE StartsWith(sub, parent)

\* the while loop of _find_parent_module_dir; "loop": it never ends
RECURSIVE ParentModuleWalk(_, _)
ParentModuleWalk(w, current_dir) ==
    IF current_dir = w.root_dir
    THEN [kind |-> "raise", dir |-> None, error |-> "TestWithNoModuleError"]
    ELSE IF IsFile(w, PathJoin(current_dir, MODULE_CONFIG))
    THEN [kind |-> "dir", dir |-> Relpath(current_dir, w.root_dir),
          error |-> ""]
    ELSE IF Dirname(current_dir) = current_dir
    THEN [kind |-> "loop", dir |-> None, error |-> ""]
    ELSE ParentModuleWalk(w, Dirname(current_dir))

\* _find_parent_module_dir
_find_parent_module_dir(w, start_dir) ==
    IF ~_is_equal_or_sub_dir(w, start_dir, w.root_dir)
    THEN [kind |-> "raise", dir |-> None, error |-> "ValueError"]
    ELSE ParentModuleWalk(w, start_dir)

\* the for loop of _get_module_name over module_info.iteritems();
\* info.get('path', [])[0] raises IndexError on an entry without paths
RECURSIVE ModuleNameLoop(_, _, _)
ModuleNameLoop(w, order, rel_module_path) ==
    IF order = <<>>
    THEN [ok |-> FALSE, name |-> None, error |-> "UnregisteredModuleError"]
    ELSE LET info == w.module_info[Head(order)]
         IN  IF ~info.has_path \/ info.path = <<>>
             THEN [ok |-> FALSE, name |-> None, error |-> "IndexError"]
             ELSE IF rel_module_path = info.path[1] /\ info.installed # <<>>
             THEN [ok |-> TRUE, name |-> Head(order), error |-> ""]
             ELSE ModuleNameLoop(w, Tail(order), rel_module_path)

\* _get_module_name that does not ask for 'installed': the first module
\* of the index whose first path is the directory
_get_module_name_uninstalled(w, rel_module_path) ==
    LET at == {n \in 1..Len(w.module_order) :
                  LET info == w.module_info[w.module_order[n]]
                  IN  /\ info.has_path /\ info.path # <<>>
                      /\ info.path[1] = rel_module_path}
    IN  IF at = {}
        THEN [ok |-> FALSE, name |-> None, error |-> "UnregisteredModuleError"]
        ELSE [ok |-> TRUE,
              name |-> w.module_order[CHOOSE n \in at : \A j \in at : n <= j],
              error |-> ""]

\* _get_module_name
_get_module_name(w, rel_module_path) ==
    ModuleNameLoop(w, w.module_order, rel_module_path)

\* ------------------------------------------------------------------------
\* INT_NAME_RE.match: the text between the last "/res/config/" and the
\* closing ".xml" (the regular expression's '.' before xml matches any
\* single character; the model's characters are the one-character tokens)
\* ------------------------------------------------------------------------
SingleChars == {".", "/", ":", "#", ",", "-"}

IntNameStarts(s) ==
    {i \in 1..Len(s) :
        /\ i + Len(ResConfig) - 1 <= Len(s) - 2
        /\ SubSeq(s, i, i + Len(ResConfig) - 1) = ResConfig
        /\ s[Len(s)] = "xml"
        /\ s[Len(s) - 1] \in SingleChars}

INT_NAME_RE_match(s) ==
    IF IntNameStarts(s) = {}
    THEN [ok |-> FALSE, int_name |-> None]
    ELSE LET i == CHOOSE k \in IntNameStarts(s) :
                      \A j \in IntNameStarts(s) : j <= k
         IN  [ok |-> TRUE,
              int_name |-> SubSeq(s, i + Len(ResConfig), Len(s) - 2)]

\* ------------------------------------------------------------------------
\* The resolution strategies
\* ------------------------------------------------------------------------
\* a Python value that is not None and not empty
Truthy(v) == v # None /\ v # <<>>

\* _find_test_by_module_name with the module directory as the config path
\* (the join with MODULE_CONFIG left out)
_find_test_by_module_name_no_config(w, module_name) ==
    IF /\ module_name \in DOMAIN w.module_info
       /\ w.module_info[module_name].installed # <<>>
    THEN IF ~w.module_info[module_name].has_path
         THEN Raise("KeyError", <<"index">>)
         ELSE IF w.module_info[module_name].path = <<>>
         THEN Raise("IndexError", <<"index">>)
         ELSE Return(TestInfo(w.module_info[module_name].path[1],
                              module_name, None, {}),
                     <<"index">>)
    ELSE ReturnNone(<<"index">>)

\* _find_test_by_module_name (info['path'] raises KeyError when the entry
\* has no 'path' key, info['path'][0] IndexError when the list is empty)
_find_test_by_module_name(w, module_name) ==
    IF /\ module_name \in DOMAIN w.module_info
       /\ w.module_info[module_name].installed # <<>>
    THEN IF ~w.module_info[module_name].has_path
         THEN Raise("KeyError", <<"index">>)
         ELSE IF w.module_info[module_name].path = <<>>
         THEN Raise("IndexError", <<"index">>)
         ELSE Return(TestInfo(PathJoin(w.module_info[module_name].path[1],
                                       MODULE_CONFIG),
                              module_name, None, {}),
                     <<"index">>)
    ELSE ReturnNone(<<"index">>)

\* _find_test_by_class_name
_find_test_by_class_name(w, class_name, module_name, rel_config, answer) ==
    LET sm         == _split_methods(class_name)
        search_dir == IF Truthy(rel_config)
                      THEN PathJoin(w.root_dir, Dirname(rel_config))
                      ELSE w.root_dir
        found      == _find_class_file(w, sm.ref, search_dir, answer)
        fq         == _get_fully_qualified_class_name(w, found.path)
        io_read    == found.io \o <<"read">>
        walk       == _find_parent_module_dir(w, Dirname(found.path))
        io_walk    == IF Truthy(rel_config) THEN io_read
                      ELSE io_read \o <<"stat">>
        rel_config2 == IF Truthy(rel_config) THEN rel_config
                       ELSE PathJoin(walk.dir, MODULE_CONFIG)
        mod        == _get_module_name(w, Dirname(rel_config2))
        io_mod     == IF Truthy(module_name) THEN io_walk
                      ELSE io_walk \o <<"index">>
    IN  IF ~sm.ok THEN Raise("TooManyMethodsError", <<>>)
        ELSE IF found.kind = "raise" THEN Raise(found.error, found.io)
        ELSE IF found.kind = "none" THEN ReturnNone(found.io)
        ELSE IF ~fq.ok THEN Raise(fq.error, io_read)
        ELSE IF ~Truthy(rel_config) /\ walk.kind = "raise"
        THEN Raise(walk.error, io_walk)
        ELSE IF ~Truthy(rel_config) /\ walk.kind = "loop" THEN Hang(io_walk)
        ELSE IF ~Truthy(module_name) /\ ~mod.ok THEN Raise(mod.error, io_mod)
        ELSE Return(TestInfo(rel_config2,
                             IF Truthy(module_name) THEN module_name
                             ELSE mod.name,
                             None,
                             {TestFilter(fq.name, sm.methods)}),
                    io_mod)

\* _find_test_by_module_and_class
_find_test_by_module_and_class(w, module_class, answer) ==
    LET parts       == Split(module_class, ":")
        module_info == _find_test_by_module_name(w, parts[1])
        by_class    == _find_test_by_class_name(w, parts[2],
                           module_info.info.module_name,
                           module_info.info.rel_config, answer)
    IN  IF Len(parts) # 2 THEN Raise("ValueError", <<>>)
        ELSE IF module_info.kind = "raise" THEN module_info
        ELSE IF module_info.kind = "none" THEN ReturnNone(module_info.io)
        ELSE [by_class EXCEPT !.io = module_info.io \o by_class.io]

\* (mutant) a root whose match is outside the config dir, or has another
\* name, is passed over and the next root is probed
RECURSIVE IntegrationLoop_next_root(_, _, _, _, _, _)
IntegrationLoop_next_root(w, dirs, name, filters, answer, io) ==
    IF dirs = <<>> THEN ReturnNone(io)
    ELSE LET abs_path  == PathJoin(w.root_dir, Head(dirs))
             out       == FindWholename(w, abs_path, name \o DotXml)
             test_file == _extract_test_path(out, answer)
             io_find   == io \o <<"find">> \o test_file.io
             match     == INT_NAME_RE_match(test_file.path)
         IN  IF ~Exists(w, abs_path)
             THEN Raise("CalledProcessError", io \o <<"find">>)
             ELSE IF test_file.kind = "raise"
             THEN Raise(test_file.error, io_find)
             ELSE IF test_file.kind = "none" \/ ~match.ok
                                     \/ match.int_name # name
             THEN IntegrationLoop_next_root(w, Tail(dirs), name, filters,
                                            answer, io_find)
             ELSE Return(TestInfo(Relpath(test_file.path, w.root_dir),
                                  None, name, filters),
                         io_find)

\* the for loop of _find_test_by_integration_name over integration_dirs
RECURSIVE IntegrationLoop(_, _, _, _, _, _)
IntegrationLoop(w, dirs, name, filters, answer, io) ==
    IF dirs = <<>> THEN ReturnNone(io)
    ELSE LET abs_path  == PathJoin(w.root_dir, Head(dirs))
             out       == FindWholename(w, abs_path, name \o DotXml)
             test_file == _extract_test_path(out, answer)
             io_find   == io \o <<"find">> \o test_file.io
             match     == INT_NAME_RE_match(test_file.path)
         IN  IF ~Exists(w, abs_path)
             THEN Raise("CalledProcessError", io \o <<"find">>)
             ELSE IF test_file.kind = "raise"
             THEN Raise(test_file.error, io_find)
             ELSE IF test_file.kind = "none"
             THEN IntegrationLoop(w, Tail(dirs), name, filters, answer,
                                  io_find)
             ELSE IF ~match.ok THEN ReturnNone(io_find)
             ELSE IF match.int_name # name THEN ReturnNone(io_find)
             ELSE Return(TestInfo(Relpath(test_file.path, w.root_dir),
                                  None, name, filters),
                         io_find)

\* _find_test_by_integration_name; answer_class and answer_int are what
\* raw_input returns for the class files and for the config files
_find_test_by_integration_name(w, user_name, answer_class, answer_int) ==
    LET has_colon == Contains(user_name, ":")
        parts     == Split(user_name, ":")
        name      == IF has_colon THEN parts[1] ELSE user_name
        sm        == _split_methods(parts[2])
        lookup    == ~Contains(sm.ref, ".")
        found     == _find_class_file(w, sm.ref, w.root_dir, answer_class)
        fq        == _get_fully_qualified_class_name(w, found.path)
        class_name == IF lookup THEN fq.name ELSE sm.ref
        io_class  == IF lookup THEN found.io \o <<"read">> ELSE <<>>
    IN  IF ~has_colon
        THEN IntegrationLoop(w, integration_dirs(w), name, {}, answer_int,
                             <<>>)
        ELSE IF Len(parts) # 2 THEN Raise("ValueError", <<>>)
        ELSE IF ~sm.ok THEN Raise("TooManyMethodsError", <<>>)
        ELSE IF lookup /\ found.kind = "raise"
        THEN Raise(found.error, found.io)
        ELSE IF lookup /\ found.kind = "none" THEN ReturnNone(found.io)
        ELSE IF lookup /\ ~fq.ok THEN Raise(fq.error, io_class)
        ELSE IntegrationLoop(w, integration_dirs(w), name,
                             {TestFilter(class_name, sm.methods)},
                             answer_int, io_class)

\* the first integration dir that holds dir_path, None if there is none
RECURSIVE FindIntDir(_, _, _)
FindIntDir(w, dirs, dir_path) ==
    IF dirs = <<>> THEN None
    ELSE IF _is_equal_or_sub_dir(w, dir_path, PathJoin(w.root_dir, Head(dirs)))
    THEN PathJoin(w.root_dir, Head(dirs))
    ELSE FindIntDir(w, Tail(dirs), dir_path)

\* _find_test_by_path
_find_test_by_path(w, user_path) ==
    LET sm        == _split_methods(user_path)
        path      == Realpath(w.cwd, sm.ref)
        dir_path  == IF IsFile(w, path) THEN PathSplit(path)[1] ELSE path
        file_name == IF IsFile(w, path) THEN PathSplit(path)[2] ELSE None
        int_dir   == FindIntDir(w, integration_dirs(w), dir_path)
        int_config == Relpath(path, w.root_dir)
        match     == INT_NAME_RE_match(int_config)
        walk      == _find_parent_module_dir(w, dir_path)
        mod       == _get_module_name(w, walk.dir)
        is_java   == Truthy(file_name) /\ EndsWith(file_name, DotJava)
        fq        == _get_fully_qualified_class_name(w, path)
        io_mod    == <<"stat", "index">>
        io_read   == IF is_java THEN io_mod \o <<"read">> ELSE io_mod
    IN  IF ~sm.ok THEN Raise("TooManyMethodsError", <<>>)
        ELSE IF ~Exists(w, path) THEN ReturnNone(<<"stat">>)
        ELSE IF Truthy(int_dir)
        THEN IF ~Truthy(file_name) THEN ReturnNone(<<"stat">>)
             ELSE IF ~match.ok THEN ReturnNone(<<"stat">>)
             ELSE Return(TestInfo(int_config, None, match.int_name, {}),
                         <<"stat">>)
        ELSE IF walk.kind = "raise" THEN Raise(walk.error, <<"stat">>)
        ELSE IF walk.kind = "loop" THEN Hang(<<"stat">>)
        ELSE IF ~Truthy(walk.dir) THEN ReturnNone(<<"stat">>)
        ELSE IF ~mod.ok THEN Raise(mod.error, io_mod)
        ELSE IF is_java /\ ~fq.ok THEN Raise(fq.error, io_read)
        ELSE Return(TestInfo(PathJoin(walk.dir, MODULE_CONFIG), mod.name,
                             None,
                             IF is_java
                             THEN {TestFilter(fq.name, sm.methods)}
                             ELSE {}),
                    io_read)

\* ------------------------------------------------------------------------
\* Test-mapping discovery.  A TEST_MAPPING file is the dict json.load
\* returns: the keys it has, its 'presubmit' names and its
\* 'include_parent' value.
\* ------------------------------------------------------------------------
\* atest_utils.ANDROID_BUILD_TOP: the repository root
ANDROID_BUILD_TOP(w) == w.root_dir

\* test_mapping.get('presubmit', [])
Presubmit(test_mapping) ==
    IF "presubmit" \in test_mapping.keys THEN test_mapping.presubmit ELSE <<>>

\* the for loop over the presubmit tests: the module strategy, then the
\* integration strategy; a name neither finds is only logged
RECURSIVE PresubmitLoop(_, _, _, _, _)
PresubmitLoop(w, names, tests, answer_class, answer_int) ==
    IF names = <<>> THEN [kind |-> "tests", tests |-> tests, error |-> ""]
    ELSE LET by_module == _find_test_by_module_name(w, Head(names))
             by_int    == _find_test_by_integration_name(w, Head(names),
                              answer_class, answer_int)
         IN  IF by_module.kind = "raise"
             THEN [kind |-> "raise", tests |-> {}, error |-> by_module.error]
             ELSE IF by_module.kind = "info"
             THEN PresubmitLoop(w, Tail(names), tests \cup {by_module.info},
                                answer_class, answer_int)
             ELSE IF by_int.kind = "raise"
             THEN [kind |-> "raise", tests |-> {}, error |-> by_int.error]
             ELSE IF by_int.kind = "info"
             THEN PresubmitLoop(w, Tail(names), tests \cup {by_int.info},
                                answer_class, answer_int)
             ELSE PresubmitLoop(w, Tail(names), tests, answer_class,
                                answer_int)

\* _find_tests_by_test_mapping.  kind "none" is the return of None;
\* visited lists the directories whose TEST_MAPPING was looked for, in
\* the order of the calls.
RECURSIVE _find_tests_by_test_mapping(_, _, _, _)
_find_tests_by_test_mapping(w, path, answer_class, answer_int) ==
    LET directory    == Realpath(w.cwd, path)
        exists       == directory \in DOMAIN w.test_mapping
        test_mapping == w.test_mapping[directory]
        here   == IF exists
                  THEN PresubmitLoop(w, Presubmit(test_mapping), {},
                                     answer_class, answer_int)
                  ELSE [kind |-> "tests", tests |-> {}, error |-> ""]
        \* not test_mapping or test_mapping.get('include_parent')
        up     == \/ ~exists
                  \/ test_mapping.keys = {}
                  \/ /\ "include_parent" \in test_mapping.keys
                     /\ test_mapping.include_parent
        parent == _find_tests_by_test_mapping(w, Dirname(directory),
                                              answer_class, answer_int)
    IN  IF directory = ANDROID_BUILD_TOP(w) \/ directory = <<"/">>
        THEN [kind |-> "none", tests |-> {}, error |-> "", visited |-> <<>>]
        ELSE IF here.kind = "raise"
        THEN [kind |-> "raise", tests |-> {}, error |-> here.error,
              visited |-> <<directory>>]
        ELSE IF ~up
        THEN [kind |-> "tests", tests |-> here.tests, error |-> "",
              visited |-> <<directory>>]
        ELSE IF parent.kind = "raise"
        THEN [parent EXCEPT !.visited = <<directory>> \o parent.visited]
        ELSE [kind |-> "tests", tests |-> here.tests \cup parent.tests,
              error |-> "", visited |-> <<directory>> \o parent.visited]

\* ------------------------------------------------------------------------
\* The filter merger
\* ------------------------------------------------------------------------
\* a set as the sequence some iteration over it yields
RECURSIVE SetToSeq(_)
SetToSeq(S) ==
    IF S = {} THEN <<>>
    ELSE LET x == CHOOSE y \in S : TRUE
         IN  <<x>> \o SetToSeq(S \ {x})

\* every order in which a set can be iterated
RECURSIVE Orders(_)
Orders(S) ==
    IF S = {} THEN {<<>>}
    ELSE UNION {{<<x>> \o o : o \in Orders(S \ {x})} : x \in S}

\* (mutant) itertools.groupby over the iterable as it comes, unsorted: one
\* pair per run of neighbours with the same key
_sort_and_group_unsorted(iterable, key) ==
    LET starts == {j \in 1..Len(iterable) :
                      j = 1 \/ key[iterable[j]] # key[iterable[j - 1]]}
        end(j) == CHOOSE e \in j..Len(iterable) :
                      /\ \A i \in j..e : key[iterable[i]] = key[iterable[j]]
                      /\ e = Len(iterable)
                         \/ key[iterable[e + 1]] # key[iterable[j]]
        first == SetToSeq(starts)
    IN  [n \in 1..Len(first) |->
            [key |-> key[iterable[first[n]]],
             group |-> SubSeq(iterable, first[n], end(first[n]))]]

\* _sort_and_group: itertools.groupby over the sorted iterable yields one
\* (key, group) pair per key; the sort is stable, so a group holds its
\* elements in iteration order.  (The pairs come in the order of the keys;
\* the callers add to a set, so the model lists them in an arbitrary order.)
\* key is the key function, as a function on the elements.
_sort_and_group(iterable, key) ==
    LET keys == SetToSeq({key[x] : x \in Range(iterable)})
    IN  [j \in 1..Len(keys) |->
            [key |-> keys[j],
             group |-> SelectSeq(iterable, LAMBDA x : key[x] = keys[j])]]

\* (mutant) a filter without methods adds nothing, the loop goes on
RECURSIVE FilterGroupLoop_union_only(_, _)
FilterGroupLoop_union_only(group, methods) ==
    IF group = <<>> THEN methods
    ELSE FilterGroupLoop_union_only(Tail(group),
                                    methods \cup Head(group).methods)

\* the inner loop of _flatten_test_filters over one group
RECURSIVE FilterGroupLoop(_, _)
FilterGroupLoop(group, methods) ==
    IF group = <<>> THEN methods
    ELSE IF Head(group).methods = {} THEN {}
    ELSE FilterGroupLoop(Tail(group), methods \cup Head(group).methods)

\* _flatten_test_filters; filters is the set in its iteration order
_flatten_test_filters(filters) ==
    LET key == [x \in Range(filters) |-> x.class_name]
    IN  {TestFilter(g.key, FilterGroupLoop(g.group, {})) :
            g \in Range(_sort_and_group(filters, key))}

\* (mutant) a descriptor without filters empties the set, but the loop
\* goes on (the break is missing)
RECURSIVE InfoGroupLoop_no_break(_, _, _)
InfoGroupLoop_no_break(group, rel_config, filters) ==
    IF group = <<>> THEN [rel_config |-> rel_config, filters |-> filters]
    ELSE IF Head(group).filters = {}
    THEN InfoGroupLoop_no_break(Tail(group), Head(group).rel_config, {})
    ELSE InfoGroupLoop_no_break(Tail(group), Head(group).rel_config,
                                filters \cup Head(group).filters)

\* the inner loop of _flatten_test_infos over the group of one module
RECURSIVE InfoGroupLoop(_, _, _)
InfoGroupLoop(group, rel_config, filters) ==
    IF group = <<>> THEN [rel_config |-> rel_config, filters |-> filters]
    ELSE IF Head(group).filters = {}
    THEN [rel_config |-> Head(group).rel_config, filters |-> {}]
    ELSE InfoGroupLoop(Tail(group), Head(group).rel_config,
                       filters \cup Head(group).filters)

\* the TestInfo _flatten_test_infos adds for the group of one module
FlattenModule(group, module) ==
    LET merged == InfoGroupLoop(group, None, {})
    IN  TestInfo(merged.rel_config, module, None,
                 _flatten_test_filters(SetToSeq(merged.filters)))

\* _flatten_test_infos; test_infos is the set in its iteration order
_flatten_test_infos(test_infos) ==
    LET key == [x \in Range(test_infos) |-> x.module_name]
    IN  UNION {IF g.key = None
               THEN Range(g.group)
               ELSE {FlattenModule(g.group, g.key)} :
               g \in Range(_sort_and_group(test_infos, key))}

\* ------------------------------------------------------------------------
\* The output artifact
\* ------------------------------------------------------------------------
\* to_set_of_tf_strings that always emits the class name, methods or not
to_set_of_tf_strings_with_class(test_filter) ==
    {test_filter.class_name}
    \cup {test_filter.class_name \o <<"#">> \o m : m \in test_filter.methods}

\* TestFilter.to_set_of_tf_strings
to_set_of_tf_strings(test_filter) ==
    IF test_filter.methods # {}
    THEN {test_filter.class_name \o <<"#">> \o m : m \in test_filter.methods}
    ELSE {test_filter.class_name}

\* TestInfo.to_tf_dict
to_tf_dict(test_info) ==
    [test |-> IF Truthy(test_info.integrated_name)
              THEN test_info.integrated_name
              ELSE test_info.module_name,
     filters |-> UNION {to_set_of_tf_strings(f) : f \in test_info.filters}]

\* _create_test_info_file: the list json.dump writes
_create_test_info_file(test_infos) ==
    [i \in 1..Len(test_infos) |-> to_tf_dict(test_infos[i])]

\* ------------------------------------------------------------------------
\* The target and command generator
\* ------------------------------------------------------------------------
MODULE_INFO == <<"module", "-", "info", ".", "json">>
MODULES_IN == <<"MODULES", "-", "IN", "-">>
TradefedCore == <<"tradefed", "-", "core">>
GoogleTradefedCore == <<"google", "-", "tradefed", "-", "core">>

\* APK_RE.match(value): no '/', and ".apk" after at least one character
APK_RE_match(value) ==
    ~Contains(value, "/") /\ Len(value) >= 3 /\ EndsWith(value, DotApk)

\* (mutant) a target parsed out of an option is added without looking it
\* up in the module index
RECURSIVE OptionsLoop_unchecked(_, _, _, _)
OptionsLoop_unchecked(w, option_tags, target_to_add, targets) ==
    IF option_tags = <<>> THEN targets
    ELSE LET name  == Head(option_tags).name
             value == Head(option_tags).value
             target == IF APK_RE_match(value)
                       THEN SubSeq(value, 1, Len(value) - Len(DotApk))
                       ELSE IF name = TEST_MODULE_NAME THEN value
                       ELSE IF ContainsSeq(value, PERF_SETUP_LABEL)
                       THEN PERF_SETUP_LABEL
                       ELSE target_to_add
         IN  IF Truthy(target)
             THEN OptionsLoop_unchecked(w, Tail(option_tags), None,
                                        targets \cup {target})
             ELSE OptionsLoop_unchecked(w, Tail(option_tags), target,
                                        targets)

\* the for loop of _get_targets_from_xml over the option tags
RECURSIVE OptionsLoop(_, _, _, _)
OptionsLoop(w, option_tags, target_to_add, targets) ==
    IF option_tags = <<>> THEN targets
    ELSE LET name  == Head(option_tags).name
             value == Head(option_tags).value
             target == IF APK_RE_match(value)
                       THEN SubSeq(value, 1, Len(value) - Len(DotApk))
                       ELSE IF name = TEST_MODULE_NAME THEN value
                       ELSE IF ContainsSeq(value, PERF_SETUP_LABEL)
                       THEN PERF_SETUP_LABEL
                       ELSE target_to_add
         IN  IF Truthy(target) /\ target \in DOMAIN w.module_info
             THEN OptionsLoop(w, Tail(option_tags), None,
                              targets \cup {target})
             ELSE OptionsLoop(w, Tail(option_tags), target, targets)

\* _get_targets_from_xml (ET.parse raises IOError when the file is missing)
_get_targets_from_xml(w, xml_file) ==
    IF ~IsFile(w, xml_file)
    THEN [ok |-> FALSE, targets |-> {}, error |-> "IOError"]
    ELSE [ok |-> TRUE,
          targets |-> OptionsLoop(w, w.options[xml_file], None, {}),
          error |-> ""]

\* _parse_build_targets
_parse_build_targets(w, test_info) ==
    LET config_file == PathJoin(w.root_dir, test_info.rel_config)
        xml     == _get_targets_from_xml(w, config_file)
        core    == IF gtf_dirs(w) # <<>> THEN GoogleTradefedCore
                   ELSE TradefedCore
        mod_dir == Replace(Dirname(test_info.rel_config), "/", "-")
    IN  IF ~xml.ok THEN xml
        ELSE [xml EXCEPT !.targets =
                 xml.targets \cup {core}
                 \cup (IF Truthy(test_info.module_name)
                       THEN {MODULES_IN \o mod_dir} ELSE {})]

\* self.module_info_target, set by _load_module_info
module_info_target(w) == Relpath(PathJoin(w.out_dir, MODULE_INFO), w.root_dir)

\* _generate_build_targets
_generate_build_targets(w, test_infos) ==
    LET parsed == {_parse_build_targets(w, t) : t \in test_infos}
    IN  IF \E r \in parsed : ~r.ok
        THEN [ok |-> FALSE, targets |-> {}, error |-> "IOError"]
        ELSE [ok |-> TRUE,
              targets |-> UNION {r.targets : r \in parsed}
                          \cup {module_info_target(w)},
              error |-> ""]

\* _generate_run_commands: one command, naming the test info file
RUN_CMD == <<"atest_tradefed", ".", "sh">>

_generate_run_commands(filepath) ==
    << [cmd |-> RUN_CMD, test_info_file |-> filepath] >>

\* ------------------------------------------------------------------------
\* The state
\* ------------------------------------------------------------------------
VARIABLES
    \* translate(): the environment and the command line
    world, tests,
    \* where translate() is, the identifier it is at, that identifier's
    \* candidate kinds and the one it is trying
    pc, idx, types, k,
    \* _get_test_info for the identifier at hand: the strategies called,
    \* the accesses they made, the descriptor returned, and how each turn
    \* of its loop ended ("unsupported": the KeyError handler ran)
    tried, io, found, log,
    \* the descriptors translate() holds
    test_infos,
    \* what translate() raised, built, wrote and returned
    error, build_targets, file, result,
    \* the classifier on its own: one identifier, two translators
    c_ref, c_self, c_types, c_io,
    \* the merger on its own: the input set, the result, the result of
    \* merging the result again
    m_kind, m_in, m_out, m_again, m_pc,
    \* one method on its own: the method, the translator it is called on,
    \* its arguments, what it returned, and whether it was called
    f_name, f_self, f_args, f_ret, f_pc

translate_vars ==
    <<world, tests, pc, idx, types, k, tried, io, found, log, test_infos,
      error, build_targets, file, result>>
classify_vars == <<c_ref, c_self, c_types, c_io>>
merge_vars == <<m_kind, m_in, m_out, m_again, m_pc>>
call_vars == <<f_name, f_self, f_args, f_ret, f_pc>>
vars == <<translate_vars, classify_vars, merge_vars, call_vars>>

\* an exception: its type, the identifier its message names (None: none),
\* and the step of translate() that raised it
NoError == [type |-> "", arg |-> None, at |-> ""]
NoFile == [written |-> FALSE, path |-> None, infos |-> <<>>]
NoResult == [returned |-> FALSE, build_targets |-> {}, run_commands |-> <<>>]

\* ------------------------------------------------------------------------
\* The command lines of the model
\* ------------------------------------------------------------------------
Identifiers ==
    { <<"M">>,                                       \* M
      <<"C">>,                                       \* C
      <<"i">>,                                       \* i
      <<"C", "#", "f", "#", "g">>,                   \* C#f#g
      <<"M", ":", "C", "#", "f">>,                   \* M:C#f
      <<"M", ":", "C", "#", "f", ",", "g">>,         \* M:C#f,g
      <<"M", ":", "C", "#", "f", "#", "g">>,         \* M:C#f#g
      <<"m", "/", "p", "#", "f", "#", "g">>,         \* m/p#f#g
      <<"p", ".", "C", "#", "f", "#", "g">>,         \* p.C#f#g
      <<"q", ".", "Z">>,                             \* q.Z
      <<"i", ":", "p", ".", "C", "#", "f">>,         \* i:p.C#f
      <<"i", ":", "p", ".", "C", "#", "g">> }        \* i:p.C#g

RECURSIVE SeqsUpTo(_, _)
SeqsUpTo(S, n) ==
    IF n = 0 THEN {<<>>}
    ELSE LET shorter == SeqsUpTo(S, n - 1)
         IN  shorter \cup {Append(q, x) : q \in shorter, x \in S}

Batches == SeqsUpTo(Identifiers, MaxTests) \ {<<>>}
Answers == 0..MaxAnswer

TranslateIdle ==
    /\ world = MkWorld([hasC |-> FALSE, hasPkg |-> FALSE, installed |-> FALSE,
                        tf |-> FALSE, hasI |-> FALSE,
                        iMod |-> FALSE, noPath |-> FALSE])
    /\ tests = <<>>
    /\ pc = "idle"
    /\ idx = 1 /\ types = <<>> /\ k = 1
    /\ tried = <<>> /\ io = <<>> /\ found = NoInfo /\ log = <<>>
    /\ test_infos = {}
    /\ error = NoError /\ build_targets = {} /\ file = NoFile
    /\ result = NoResult

ClassifyIdle ==
    /\ c_ref = <<>> /\ c_self = <<>> /\ c_types = <<>> /\ c_io = <<>>

MergeIdle ==
    /\ m_kind = "idle" /\ m_in = {} /\ m_out = {} /\ m_again = {}
    /\ m_pc = "idle"

CallIdle ==
    /\ f_name = "idle" /\ f_self = <<>>
    /\ f_args = [arg |-> <<>>, answer_class |-> 0, answer_int |-> 0,
                 output |-> <<>>]
    /\ f_ret = [kind |-> "pending"] /\ f_pc = "idle"

\* ------------------------------------------------------------------------
\* translate()
\* ------------------------------------------------------------------------
\* the environments translate() is run in without identifiers: the
\* working directory is the module directory, which has a TEST_MAPPING
\* naming M and i
MappingWorlds ==
    {[MkWorld(t) EXCEPT
         !.cwd = ModDir,
         !.test_mapping =
             (ModDir :> [keys |-> {"presubmit"},
                         presubmit |-> << <<"M">>, <<"i">> >>,
                         include_parent |-> FALSE])] : t \in Toggles}

TranslateInit ==
    /\ \/ world \in Worlds /\ tests \in Batches \cup {<<>>}
       \/ world \in MappingWorlds /\ tests = <<>>
    /\ pc = "start"
    /\ idx = 1 /\ types = <<>> /\ k = 1
    /\ tried = <<>> /\ io = <<>> /\ found = NoInfo /\ log = <<>>
    /\ test_infos = {}
    /\ error = NoError /\ build_targets = {} /\ file = NoFile
    /\ result = NoResult

\* translate() is entered with identifiers on the command line
TranslateBegin ==
    /\ pc = "start"
    /\ tests # <<>>
    /\ pc' = "classify"
    /\ UNCHANGED <<world, tests, idx, types, k, tried, io, found, log,
                   test_infos, error, build_targets, file, result>>

\* translate() is entered without identifiers:
\* test_infos = self._find_tests_by_test_mapping(), NoTestFoundError when
\* that is None or empty
FindTestsByTestMapping ==
    /\ pc = "start"
    /\ tests = <<>>
    /\ \E answer_class \in Answers, answer_int \in Answers :
          \E r \in {_find_tests_by_test_mapping(world, <<>>, answer_class,
                                                  answer_int)} :
              IF r.kind = "raise"
              THEN /\ pc' = "error"
                   /\ error' = [type |-> r.error, arg |-> None,
                                at |-> "mapping"]
                   /\ UNCHANGED test_infos
              ELSE IF r.tests = {}
              THEN /\ pc' = "error"
                   /\ error' = [type |-> "NoTestFoundError",
                                arg |-> Realpath(world.cwd, <<>>),
                                at |-> "mapping"]
                   /\ UNCHANGED test_infos
              ELSE /\ pc' = "merge"
                   /\ test_infos' = r.tests
                   /\ UNCHANGED error
    /\ UNCHANGED <<world, tests, idx, types, k, tried, io, found, log,
                   build_targets, file, result>>

\* possible_reference_types = self._get_test_reference_types(test)
Classify ==
    /\ pc = "classify"
    /\ types' = _get_test_reference_types(world, tests[idx])
    /\ k' = 1
    /\ pc' = "dispatch"
    /\ UNCHANGED <<world, tests, idx, tried, io, found, log, test_infos,
                   error, build_targets, file, result>>

\* (mutant) the loop of _get_test_info keeps the descriptor and goes on to
\* the next candidate instead of returning
Attempt_no_return(ref_type, r) ==
    /\ io' = io \o r.io
    /\ tried' = Append(tried, ref_type)
    /\ log' = Append(log, [kind |-> ref_type,
                           outcome |-> IF r.kind = "raise"
                                          /\ r.error = "KeyError"
                                       THEN "unsupported" ELSE r.kind])
    /\ IF r.kind = "info"
       THEN /\ found' = r.info
            /\ IF k < Len(types)
               THEN k' = k + 1 /\ UNCHANGED pc
               ELSE pc' = "resolved" /\ UNCHANGED k
            /\ UNCHANGED error
       ELSE IF r.kind = "none" \/ (r.kind = "raise" /\ r.error = "KeyError")
       THEN /\ k' = k + 1
            /\ UNCHANGED <<pc, found, error>>
       ELSE IF r.kind = "raise"
       THEN /\ pc' = "error"
            /\ error' = [type |-> r.error, arg |-> None, at |-> "dispatch"]
            /\ UNCHANGED <<k, found>>
       ELSE /\ pc' = "hang"
            /\ UNCHANGED <<k, found, error>>
    /\ UNCHANGED <<world, tests, idx, types, test_infos, build_targets, file,
                   result>>

\* (mutant) the loop of _get_test_info returns None at the first candidate
\* that finds nothing
Attempt_first_only(ref_type, r) ==
    /\ io' = io \o r.io
    /\ tried' = Append(tried, ref_type)
    /\ log' = Append(log, [kind |-> ref_type,
                           outcome |-> IF r.kind = "raise"
                                          /\ r.error = "KeyError"
                                       THEN "unsupported" ELSE r.kind])
    /\ IF r.kind = "info"
       THEN /\ found' = r.info
            /\ pc' = "resolved"
            /\ UNCHANGED <<k, error>>
       ELSE IF r.kind = "none"
       THEN /\ k' = Len(types) + 1
            /\ UNCHANGED <<pc, found, error>>
       ELSE IF r.kind = "raise" /\ r.error = "KeyError"
       THEN /\ k' = k + 1
            /\ UNCHANGED <<pc, found, error>>
       ELSE IF r.kind = "raise"
       THEN /\ pc' = "error"
            /\ error' = [type |-> r.error, arg |-> None, at |-> "dispatch"]
            /\ UNCHANGED <<k, found>>
       ELSE /\ pc' = "hang"
            /\ UNCHANGED <<k, found, error>>
    /\ UNCHANGED <<world, tests, idx, types, test_infos, build_targets, file,
                   result>>

\* one turn of the loop of _get_test_info: the strategy of ref_type was
\* called with the identifier and ended as r.  A KeyError the strategy
\* raises is caught by the loop's except KeyError, which logs the kind as
\* unsupported and goes on; any other exception leaves translate().
Attempt(ref_type, r) ==
    /\ io' = io \o r.io
    /\ tried' = Append(tried, ref_type)
    /\ log' = Append(log, [kind |-> ref_type,
                           outcome |-> IF r.kind = "raise"
                                          /\ r.error = "KeyError"
                                       THEN "unsupported" ELSE r.kind])
    /\ IF r.kind = "info"
       THEN /\ found' = r.info
            /\ pc' = "resolved"
            /\ UNCHANGED <<k, error>>
       ELSE IF r.kind = "none" \/ (r.kind = "raise" /\ r.error = "KeyError")
       THEN /\ k' = k + 1
            /\ UNCHANGED <<pc, found, error>>
       ELSE IF r.kind = "raise"
       THEN /\ pc' = "error"
            /\ error' = [type |-> r.error, arg |-> None, at |-> "dispatch"]
            /\ UNCHANGED <<k, found>>
       ELSE /\ pc' = "hang"
            /\ UNCHANGED <<k, found, error>>
    /\ UNCHANGED <<world, tests, idx, types, test_infos, build_targets, file,
                   result>>

Dispatching(ref_types) ==
    /\ pc = "dispatch"
    /\ k <= Len(types)
    /\ types[k] \in ref_types

\* self.ref_type_to_func_map[ref_type](test_name), for the kinds the map
\* has; the answers are what raw_input returns for class files and for
\* config files
ref_type_to_func_map(w, ref_type, test_name, answer_class, answer_int) ==
    IF ref_type = "MODULE" THEN _find_test_by_module_name(w, test_name)
    ELSE IF ref_type \in {"CLASS", "QUALIFIED_CLASS"}
    THEN _find_test_by_class_name(w, test_name, None, None, answer_class)
    ELSE IF ref_type = "MODULE_CLASS"
    THEN _find_test_by_module_and_class(w, test_name, answer_class)
    ELSE IF ref_type = "FILE_PATH" THEN _find_test_by_path(w, test_name)
    ELSE _find_test_by_integration_name(w, test_name, answer_class,
                                        answer_int)

TryModule ==
    /\ Dispatching({"MODULE"})
    /\ Attempt(types[k], _find_test_by_module_name(world, tests[idx]))

TryClass ==
    /\ Dispatching({"CLASS", "QUALIFIED_CLASS"})
    /\ \E answer \in Answers :
          Attempt(types[k],
                  _find_test_by_class_name(world, tests[idx], None, None,
                                           answer))

TryModuleClass ==
    /\ Dispatching({"MODULE_CLASS"})
    /\ \E answer \in Answers :
          Attempt(types[k],
                  _find_test_by_module_and_class(world, tests[idx], answer))

TryPath ==
    /\ Dispatching({"FILE_PATH"})
    /\ Attempt(types[k], _find_test_by_path(world, tests[idx]))

TryIntegration ==
    /\ Dispatching({"INTEGRATION"})
    /\ \E answer_class \in Answers, answer_int \in Answers :
          Attempt(types[k],
                  _find_test_by_integration_name(world, tests[idx],
                                                 answer_class, answer_int))

\* ref_type_to_func_map has no entry: KeyError, caught, logged as
\* unsupported, next candidate
SkipUnsupported ==
    /\ Dispatching({"PACKAGE", "MODULE_PACKAGE", "SUITE"})
    /\ k' = k + 1
    /\ log' = Append(log, [kind |-> types[k], outcome |-> "unsupported"])
    /\ UNCHANGED <<world, tests, pc, idx, types, tried, io, found, test_infos,
                   error, build_targets, file, result>>

\* _get_test_info returned None and translate() only reports it, going on
\* to the next identifier (the TODO of translate())
NoTestFound_message_only ==
    /\ pc = "dispatch"
    /\ k > Len(types)
    /\ tried' = <<>> /\ io' = <<>> /\ log' = <<>>
    /\ IF idx < Len(tests)
       THEN idx' = idx + 1 /\ pc' = "classify"
       ELSE idx' = idx /\ pc' = "merge"
    /\ UNCHANGED <<world, tests, types, k, found, test_infos, error,
                   build_targets, file, result>>

\* _get_test_info returned None: raise NoTestFoundError
NoTestFound ==
    /\ pc = "dispatch"
    /\ k > Len(types)
    /\ pc' = "error"
    /\ error' = [type |-> "NoTestFoundError", arg |-> tests[idx],
                 at |-> "dispatch"]
    /\ UNCHANGED <<world, tests, idx, types, k, tried, io, found, log,
                   test_infos, build_targets, file, result>>

\* _get_test_info returned a descriptor: test_infos.add(test_info), and
\* on to the next identifier
AddTestInfo ==
    /\ pc = "resolved"
    /\ test_infos' = test_infos \cup {found}
    /\ tried' = <<>> /\ io' = <<>> /\ found' = NoInfo /\ log' = <<>>
    /\ IF idx < Len(tests)
       THEN idx' = idx + 1 /\ pc' = "classify"
       ELSE idx' = idx /\ pc' = "merge"
    /\ UNCHANGED <<world, tests, types, k, error, build_targets, file,
                   result>>

\* test_infos = self._flatten_test_infos(test_infos)
Flatten ==
    /\ pc = "merge"
    /\ \E order \in Orders(test_infos) :
          test_infos' = _flatten_test_infos(order)
    /\ pc' = "targets"
    /\ UNCHANGED <<world, tests, idx, types, k, tried, io, found, log, error,
                   build_targets, file, result>>

\* build_targets = self._generate_build_targets(test_infos)
GenerateBuildTargets ==
    /\ pc = "targets"
    /\ LET r == _generate_build_targets(world, test_infos)
       IN  IF r.ok
           THEN /\ build_targets' = r.targets
                /\ pc' = "write"
                /\ UNCHANGED error
           ELSE /\ pc' = "error"
                /\ error' = [type |-> r.error, arg |-> None, at |-> "targets"]
                /\ UNCHANGED build_targets
    /\ UNCHANGED <<world, tests, idx, types, k, tried, io, found, log,
                   test_infos, file, result>>

\* filepath = self._create_test_info_file(test_infos)
CreateTestInfoFile ==
    /\ pc = "write"
    /\ \E order \in Orders(test_infos) :
          file' = [written |-> TRUE,
                   path |-> PathJoin(world.results_dir,
                                     <<"test_info", ".", "json">>),
                   infos |-> _create_test_info_file(order)]
    /\ pc' = "command"
    /\ UNCHANGED <<world, tests, idx, types, k, tried, io, found, log,
                   test_infos, error, build_targets, result>>

\* run_commands = ...; return build_targets, run_commands
GenerateRunCommands ==
    /\ pc = "command"
    /\ result' = [returned |-> TRUE, build_targets |-> build_targets,
                  run_commands |-> _generate_run_commands(file.path)]
    /\ pc' = "done"
    /\ UNCHANGED <<world, tests, idx, types, k, tried, io, found, log,
                   test_infos, error, build_targets, file>>

Init == TranslateInit /\ ClassifyIdle /\ MergeIdle /\ CallIdle

Next ==
    \/ (TranslateBegin /\ UNCHANGED <<classify_vars, merge_vars, call_vars>>)
    \/ (FindTestsByTestMapping /\ UNCHANGED <<classify_vars, merge_vars, call_vars>>)
    \/ (Classify /\ UNCHANGED <<classify_vars, merge_vars, call_vars>>)
    \/ (TryModule /\ UNCHANGED <<classify_vars, merge_vars, call_vars>>)
    \/ (TryClass /\ UNCHANGED <<classify_vars, merge_vars, call_vars>>)
    \/ (TryModuleClass /\ UNCHANGED <<classify_vars, merge_vars, call_vars>>)
    \/ (TryPath /\ UNCHANGED <<classify_vars, merge_vars, call_vars>>)
    \/ (TryIntegration /\ UNCHANGED <<classify_vars, merge_vars, call_vars>>)
    \/ (SkipUnsupported /\ UNCHANGED <<classify_vars, merge_vars, call_vars>>)
    \/ (NoTestFound /\ UNCHANGED <<classify_vars, merge_vars, call_vars>>)
    \/ (AddTestInfo /\ UNCHANGED <<classify_vars, merge_vars, call_vars>>)
    \/ (Flatten /\ UNCHANGED <<classify_vars, merge_vars, call_vars>>)
    \/ (GenerateBuildTargets /\ UNCHANGED <<classify_vars, merge_vars, call_vars>>)
    \/ (CreateTestInfoFile /\ UNCHANGED <<classify_vars, merge_vars, call_vars>>)
    \/ (GenerateRunCommands /\ UNCHANGED <<classify_vars, merge_vars, call_vars>>)

Spec == Init /\ [][Next]_vars

\* ------------------------------------------------------------------------
\* The classifier on its own: the same identifier is classified by two
\* translators, each with an environment of its own
\* ------------------------------------------------------------------------
RefAlphabet == {".", "/", ":", "#", "a"}

ClassifyWorlds ==
    {MkWorld([hasC |-> b, hasPkg |-> b, installed |-> b, tf |-> b,
              hasI |-> b, iMod |-> b, noPath |-> FALSE]) : b \in BOOLEAN}

ClassifyInit ==
    /\ c_ref \in SeqsUpTo(RefAlphabet, MaxRefLen)
    /\ c_self \in ClassifyWorlds \X ClassifyWorlds
    /\ c_types = << <<>>, <<>> >>
    /\ c_io = << <<>>, <<>> >>

\* run r calls _get_test_reference_types(c_ref); the call makes no access
ClassifyRun(r) ==
    /\ c_types[r] = <<>>
    /\ c_types' = [c_types EXCEPT
                      ![r] = _get_test_reference_types(c_self[r], c_ref)]
    /\ UNCHANGED <<c_ref, c_self, c_io>>

InitClassify == ClassifyInit /\ TranslateIdle /\ MergeIdle /\ CallIdle

NextClassify ==
    \/ (ClassifyRun(1) /\ UNCHANGED <<translate_vars, merge_vars, call_vars>>)
    \/ (ClassifyRun(2) /\ UNCHANGED <<translate_vars, merge_vars, call_vars>>)

SpecClassify == InitClassify /\ [][NextClassify]_vars

\* ------------------------------------------------------------------------
\* The merger on its own: a set of filters, or a set of descriptors, is
\* merged, and the result is merged again
\* ------------------------------------------------------------------------
ClassA == <<"p", ".", "A">>
ClassB == <<"p", ".", "B">>
MethodNames == {<<"f">>, <<"g">>}

FilterUniverse ==
    {TestFilter(c, ms) : c \in {ClassA, ClassB}, ms \in SUBSET MethodNames}

\* the subsets of S with at most n elements
SubsetsUpTo(S, n) == {T \in SUBSET S : Cardinality(T) <= n}

\* what a strategy attaches to a descriptor: no filter, or one
InfoFilterSets ==
    SubsetsUpTo({TestFilter(ClassA, {}), TestFilter(ClassA, {<<"f">>}),
                 TestFilter(ClassA, {<<"g">>}), TestFilter(ClassB, {<<"f">>})},
                1)

ConfigOfM == PathJoin(RelModDir, MODULE_CONFIG)
ConfigOfM2 == PathJoin(<<"m2">>, MODULE_CONFIG)
ConfigOfN == PathJoin(<<"n">>, MODULE_CONFIG)
ConfigOfI == <<"tf">> \o ResConfig \o <<"i">> \o DotXml

InfoUniverse ==
    {TestInfo(c, <<"M">>, None, fs) :
        c \in {ConfigOfM, ConfigOfM2}, fs \in InfoFilterSets}
    \cup {TestInfo(ConfigOfN, <<"N">>, None, fs) : fs \in InfoFilterSets}
    \cup {TestInfo(ConfigOfI, None, <<"i">>, fs) : fs \in InfoFilterSets}

MergeInit ==
    /\ \/ m_kind = "filters" /\ m_in \in SubsetsUpTo(FilterUniverse, MaxFilters)
       \/ m_kind = "infos" /\ m_in \in SubsetsUpTo(InfoUniverse, MaxInfos)
    /\ m_out = {} /\ m_again = {}
    /\ m_pc = "first"

FlattenFilters ==
    /\ m_kind = "filters" /\ m_pc = "first"
    /\ \E order \in Orders(m_in) : m_out' = _flatten_test_filters(order)
    /\ m_pc' = "second"
    /\ UNCHANGED <<m_kind, m_in, m_again>>

FlattenFiltersAgain ==
    /\ m_kind = "filters" /\ m_pc = "second"
    /\ \E order \in Orders(m_out) : m_again' = _flatten_test_filters(order)
    /\ m_pc' = "done"
    /\ UNCHANGED <<m_kind, m_in, m_out>>

FlattenInfos ==
    /\ m_kind = "infos" /\ m_pc = "first"
    /\ \E order \in Orders(m_in) : m_out' = _flatten_test_infos(order)
    /\ m_pc' = "second"
    /\ UNCHANGED <<m_kind, m_in, m_again>>

FlattenInfosAgain ==
    /\ m_kind = "infos" /\ m_pc = "second"
    /\ \E order \in Orders(m_out) : m_again' = _flatten_test_infos(order)
    /\ m_pc' = "done"
    /\ UNCHANGED <<m_kind, m_in, m_out>>

InitMerge == MergeInit /\ TranslateIdle /\ ClassifyIdle /\ CallIdle

NextMerge ==
    \/ (FlattenFilters /\ UNCHANGED <<translate_vars, classify_vars, call_vars>>)
    \/ (FlattenFiltersAgain /\ UNCHANGED <<translate_vars, classify_vars, call_vars>>)
    \/ (FlattenInfos /\ UNCHANGED <<translate_vars, classify_vars, call_vars>>)
    \/ (FlattenInfosAgain /\ UNCHANGED <<translate_vars, classify_vars, call_vars>>)

SpecMerge == InitMerge /\ [][NextMerge]_vars

\* ------------------------------------------------------------------------
\* module_info.py: ModuleInfo. A dict is a record of the order its
\* iteration visits the keys in and of the value under each key; an entry
\* of module-info.json has the list under 'path' (has_path: the key is
\* there) and the list under 'installed' (empty also when the key is
\* missing: the code reads it with get only)
\* ------------------------------------------------------------------------
\* for path in mod_info.get(_MODULE_PATH, []): mod_info is appended to
\* the list under path, or starts it
RECURSIVE PathLoop(_, _, _)
PathLoop(paths, mod_info, path_to_module_info) ==
    IF paths = <<>> THEN path_to_module_info
    ELSE PathLoop(Tail(paths), mod_info,
                  IF Head(paths) \in DOMAIN path_to_module_info
                  THEN [path_to_module_info EXCEPT
                           ![Head(paths)] = Append(@, mod_info)]
                  ELSE (Head(paths) :> <<mod_info>>) @@ path_to_module_info)

\* for mod_name, mod_info in name_to_module_info.iteritems(), with
\* mod_info[_MODULE_NAME] = mod_name
RECURSIVE ModuleLoop(_, _, _)
ModuleLoop(order, info, path_to_module_info) ==
    IF order = <<>> THEN path_to_module_info
    ELSE ModuleLoop(Tail(order), info,
                    PathLoop(IF info[Head(order)].has_path
                             THEN info[Head(order)].path ELSE <<>>,
                             [module_name |-> Head(order),
                              installed |-> info[Head(order)].installed],
                             path_to_module_info))

\* ModuleInfo._get_path_to_module_info
_get_path_to_module_info(name_to_module_info) ==
    ModuleLoop(name_to_module_info.order, name_to_module_info.info, <<>>)

\* get_module_name that returns the first module of the path, installed
\* or not
get_module_name_first(self, rel_module_path) ==
    LET mods == IF rel_module_path \in DOMAIN self.path_to_module_info
                THEN self.path_to_module_info[rel_module_path]
                ELSE <<>>
    IN  [kind |-> "value",
         value |-> IF mods = <<>> THEN None ELSE mods[1].module_name]

\* ModuleInfo.get_module_name: the loop stops at the first module of the
\* list with a non-empty 'installed'
get_module_name(self, rel_module_path) ==
    LET mods == IF rel_module_path \in DOMAIN self.path_to_module_info
                THEN self.path_to_module_info[rel_module_path]
                ELSE <<>>
        hits == {j \in 1..Len(mods) : mods[j].installed # <<>>}
    IN  [kind |-> "value",
         value |-> IF hits = {} THEN None
                   ELSE mods[CHOOSE j \in hits :
                                 \A i \in hits : j <= i].module_name]

\* ------------------------------------------------------------------------
\* The methods on their own: one method is called once on a translator
\* whose environment is drawn from the larger repository
\* ------------------------------------------------------------------------
\* what raw_input may return: the numbers of the list, the negative
\* numbers Python counts from its end, and one number too far either way
CallAnswers == (0 - MaxMatches - 1)..MaxMatches

Args(arg, answer_class, answer_int, output) ==
    [arg |-> arg, answer_class |-> answer_class, answer_int |-> answer_int,
     output |-> output]

\* what the TEST_MAPPING of a directory holds
\*   "absent"  no file               "empty"  {}
\*   "M"       {presubmit: [M]}      "up"     {include_parent: true}
\*   "Mup"     {presubmit: [M], include_parent: true}
\*   "i"       {presubmit: [i], include_parent: false}
MappingOf(kind) ==
    [keys |-> IF kind = "empty" THEN {}
              ELSE IF kind = "M" THEN {"presubmit"}
              ELSE IF kind = "up" THEN {"include_parent"}
              ELSE {"presubmit", "include_parent"},
     presubmit |-> IF kind \in {"M", "Mup"} THEN << <<"M">> >>
                   ELSE IF kind = "i" THEN << <<"i">> >>
                   ELSE <<>>,
     include_parent |-> kind \in {"Mup", "up"}]

\* the option tags a config file may hold
OptionUniverse ==
    { [name |-> <<"apk">>, value |-> <<"M", ".", "apk">>],   \* M, in the index
      [name |-> <<"apk">>, value |-> <<"Z", ".", "apk">>],   \* Z, not in it
      [name |-> TEST_MODULE_NAME, value |-> <<"T">>],        \* T, in the index
      [name |-> TEST_MODULE_NAME, value |-> <<"Y">>],        \* Y, not in it
      [name |-> <<"cmd">>, value |-> <<"sh", " ">> \o PERF_SETUP_LABEL],
      [name |-> <<"v">>, value |-> <<"w">>] }                \* no candidate

\* The method called, the translator it is called on and its arguments
InitCalls ==
    /\ TranslateIdle /\ ClassifyIdle /\ MergeIdle
    /\ f_pc = "call" /\ f_ret = [kind |-> "pending"]
    /\ \* _find_parent_module_dir(start_dir)
       \/ /\ f_name = "_find_parent_module_dir"
          /\ f_self \in
               {CallWorld([CallBase EXCEPT !.rootCfg = a, !.mCfg = b,
                                           !.pCfg = c, !.r2Cfg = d]) :
                   a \in BOOLEAN, b \in BOOLEAN, c \in BOOLEAN,
                   d \in BOOLEAN}
          /\ \E d \in {<<"/">>, RootDir, ModDir, Repo.p, Repo.q, Repo.n,
                       Repo.o, Repo.tf2, Repo.r2, ClassFile} :
                f_args = Args(d, 0, 0, <<>>)
       \* _find_test_by_class_name(class_name): C, C#f, p.C, C#, C#f,
       \/ /\ f_name = "_find_test_by_class_name"
          /\ f_self \in
               {CallWorld([CallBase EXCEPT !.cls = c, !.pkg = g, !.mCfg = b,
                                           !.pCfg = d, !.index = x]) :
                   c \in {"none", "one", "two"}, g \in BOOLEAN,
                   b \in BOOLEAN, d \in BOOLEAN,
                   x \in {"ok", "off", "gone", "nopath", "empty", "late"}}
          /\ \E c \in {<<"C">>, <<"C", "#", "f">>, <<"p", ".", "C">>,
                       <<"C", "#">>, <<"C", "#", "f", ",">>},
                a \in CallAnswers :
                f_args = Args(c, a, 0, <<>>)
       \* _find_test_by_path(path), called in the repository root: .  m
       \* m/p  m/p/C.java  m/AndroidTest.xml  n/o  tf  tf/res/config
       \* tf/res/config/i.xml  tf/other/i.xml  tf2  tf2/AndroidTest.xml
       \* ../r2  z
       \/ /\ f_name = "_find_test_by_path"
          /\ f_self \in
               {CallWorld([CallBase EXCEPT !.pkg = g, !.mCfg = b, !.pCfg = d,
                                           !.r2Cfg = e, !.index = x,
                                           !.tfI = y, !.gtf = z]) :
                   g \in BOOLEAN, b \in BOOLEAN, d \in BOOLEAN,
                   e \in BOOLEAN, x \in {"ok", "off", "gone", "nopath"},
                   y \in {"none", "i", "sub", "other", "two"},
                   z \in {"noroot", "root"}}
          /\ \E u \in { <<".">>,
                        <<"m">>,
                        <<"m", "/", "p">>,
                        <<"m", "/", "p", "/", "C", ".", "java">>,
                        <<"m", "/", "AndroidTest", ".", "xml">>,
                        <<"n", "/", "o">>,
                        <<"tf">>,
                        <<"tf", "/", "res", "/", "config">>,
                        <<"tf", "/", "res", "/", "config", "/", "i", ".",
                          "xml">>,
                        <<"tf", "/", "other", "/", "i", ".", "xml">>,
                        <<"tf", "2">>,
                        <<"tf", "2", "/", "AndroidTest", ".", "xml">>,
                        <<".", ".", "/", "r", "2">>,
                        <<"z">> } :
                f_args = Args(u, 0, 0, <<>>)
       \* _find_test_by_integration_name(name): i, sub/i, i:C, i:p.C#f, z
       \/ /\ f_name = "_find_test_by_integration_name"
          /\ f_self \in
               {CallWorld([CallBase EXCEPT !.pkg = g, !.tfI = y, !.gtf = z]) :
                   g \in BOOLEAN,
                   y \in {"none", "i", "sub", "other", "two"},
                   z \in {"noroot", "root", "i"}}
          /\ \E n \in { <<"i">>,
                        <<"sub", "/", "i">>,
                        <<"i", ":", "C">>,
                        <<"i", ":", "p", ".", "C", "#", "f">>,
                        <<"z">> },
                a \in CallAnswers :
                f_args = Args(n, 0, a, <<>>)
       \* _find_tests_by_test_mapping(), called in a working directory,
       \* with what the TEST_MAPPING of /r/m/p, /r/m and /r hold
       \/ /\ f_name = "_find_tests_by_test_mapping"
          /\ f_self \in
               {[CallWorld([CallBase EXCEPT !.cwd = d]) EXCEPT
                    !.test_mapping =
                        [x \in {y \in {Repo.p, ModDir, RootDir} :
                                   c[y] # "absent"} |-> MappingOf(c[x])]] :
                   d \in {Repo.p, ModDir, RootDir, Repo.o, Repo.r2},
                   c \in [{Repo.p, ModDir, RootDir} ->
                             {"absent", "empty", "M", "Mup", "i", "up"}]}
          /\ f_args = Args(<<>>, 0, 0, <<>>)
       \* _get_targets_from_xml(m/AndroidTest.xml), with the option tags
       \* of the file, and with or without perf-setup.sh in the index
       \/ /\ f_name = "_get_targets_from_xml"
          /\ f_self \in
               {[CallWorld(CallBase) EXCEPT
                    !.options = [@ EXCEPT ![ModConfig] = o],
                    !.module_order =
                        IF perf THEN Append(@, PERF_SETUP_LABEL) ELSE @,
                    !.module_info =
                        IF perf
                        THEN (PERF_SETUP_LABEL :>
                                 [has_path |-> TRUE,
                                  path |-> << <<"perf">> >>,
                                  installed |->
                                      << <<"out", "/">>
                                         \o PERF_SETUP_LABEL >>]) @@ @
                        ELSE @] :
                   o \in SeqsUpTo(OptionUniverse, MaxOptions),
                   perf \in BOOLEAN}
          /\ f_args = Args(ModConfig, 0, 0, <<>>)
       \* _extract_test_path(output), with the lines of a find output
       \/ /\ f_name = "_extract_test_path"
          /\ f_self = CallWorld(CallBase)
          /\ \E out \in SeqsUpTo({ClassFile, Repo.classQ, IntConfig},
                                 MaxMatches),
                a \in CallAnswers :
                f_args = Args(<<>>, a, 0, out)
       \* ModuleInfo(module_file).get_module_name(path): module_file holds
       \* the modules A and B, each with a list of the paths m and n or
       \* without one, installed or not; __init__ keeps the dict loaded and
       \* the path dict made of it
       \/ /\ f_name = "get_module_name"
          /\ \E order \in { << <<"A">>, <<"B">> >>, << <<"B">>, <<"A">> >> },
                info \in [{<<"A">>, <<"B">>} ->
                            {[has_path |-> h, path |-> p, installed |-> i] :
                                h \in BOOLEAN,
                                p \in SeqsUpTo({<<"m">>, <<"n">>}, MaxPaths),
                                i \in {<<>>, <<ApkOfM>>}}] :
                /\ \A n \in DOMAIN info :
                       ~info[n].has_path => info[n].path = <<>>
                /\ f_self =
                       [name_to_module_info |->
                            [order |-> order, info |-> info],
                        path_to_module_info |->
                            _get_path_to_module_info(
                                [order |-> order, info |-> info])]
          /\ \E p \in {<<"m">>, <<"n">>, <<"o">>} :
                f_args = Args(p, 0, 0, <<>>)

FindParentModuleDir ==
    /\ f_name = "_find_parent_module_dir" /\ f_pc = "call"
    /\ f_ret' = _find_parent_module_dir(f_self, f_args.arg)
    /\ f_pc' = "done"
    /\ UNCHANGED <<f_name, f_self, f_args>>

FindTestByClassName ==
    /\ f_name = "_find_test_by_class_name" /\ f_pc = "call"
    /\ f_ret' = _find_test_by_class_name(f_self, f_args.arg, None, None,
                                         f_args.answer_class)
    /\ f_pc' = "done"
    /\ UNCHANGED <<f_name, f_self, f_args>>

FindTestByPath ==
    /\ f_name = "_find_test_by_path" /\ f_pc = "call"
    /\ f_ret' = _find_test_by_path(f_self, f_args.arg)
    /\ f_pc' = "done"
    /\ UNCHANGED <<f_name, f_self, f_args>>

FindTestByIntegrationName ==
    /\ f_name = "_find_test_by_integration_name" /\ f_pc = "call"
    /\ f_ret' = _find_test_by_integration_name(f_self, f_args.arg,
                    f_args.answer_class, f_args.answer_int)
    /\ f_pc' = "done"
    /\ UNCHANGED <<f_name, f_self, f_args>>

FindTestsByTestMappingCall ==
    /\ f_name = "_find_tests_by_test_mapping" /\ f_pc = "call"
    /\ f_ret' = _find_tests_by_test_mapping(f_self, f_args.arg,
                    f_args.answer_class, f_args.answer_int)
    /\ f_pc' = "done"
    /\ UNCHANGED <<f_name, f_self, f_args>>

GetTargetsFromXml ==
    /\ f_name = "_get_targets_from_xml" /\ f_pc = "call"
    /\ f_ret' = _get_targets_from_xml(f_self, f_args.arg)
    /\ f_pc' = "done"
    /\ UNCHANGED <<f_name, f_self, f_args>>

ExtractTestPath ==
    /\ f_name = "_extract_test_path" /\ f_pc = "call"
    /\ f_ret' = _extract_test_path(f_args.output, f_args.answer_class)
    /\ f_pc' = "done"
    /\ UNCHANGED <<f_name, f_self, f_args>>

GetModuleName ==
    /\ f_name = "get_module_name" /\ f_pc = "call"
    /\ f_ret' = get_module_name(f_self, f_args.arg)
    /\ f_pc' = "done"
    /\ UNCHANGED <<f_name, f_self, f_args>>

NextCalls ==
    \/ (FindParentModuleDir
        /\ UNCHANGED <<translate_vars, classify_vars, merge_vars>>)
    \/ (FindTestByClassName
        /\ UNCHANGED <<translate_vars, classify_vars, merge_vars>>)
    \/ (FindTestByPath
        /\ UNCHANGED <<translate_vars, classify_vars, merge_vars>>)
    \/ (FindTestByIntegrationName
        /\ UNCHANGED <<translate_vars, classify_vars, merge_vars>>)
    \/ (FindTestsByTestMappingCall
        /\ UNCHANGED <<translate_vars, classify_vars, merge_vars>>)
    \/ (GetTargetsFromXml
        /\ UNCHANGED <<translate_vars, classify_vars, merge_vars>>)
    \/ (ExtractTestPath
        /\ UNCHANGED <<translate_vars, classify_vars, merge_vars>>)
    \/ (GetModuleName
        /\ UNCHANGED <<translate_vars, classify_vars, merge_vars>>)

SpecCalls == InitCalls /\ [][NextCalls]_vars

\* ========================================================================
\* Properties
\* ========================================================================
Classified(r) == c_types[r] # <<>>

\* C1: the classifier returns the list of the first rule that matches, in
\* the order: leading '.' or '..' -> [FILE_PATH]; '/' -> [FILE_PATH] when
\* it leads, else [FILE_PATH, INTEGRATION]; ':' -> [MODULE_CLASS,
\* MODULE_PACKAGE, INTEGRATION] with a '.', else [MODULE_CLASS,
\* INTEGRATION]; '.' -> [FILE_PATH, QUALIFIED_CLASS, PACKAGE]; otherwise
\* [INTEGRATION, MODULE, CLASS].  SUITE is never returned.
C1_ClassifierRules ==
    \A r \in {1, 2} :
        Classified(r) =>
            LET relative  == (Len(c_ref) > 0 /\ c_ref[1] = ".")
                             \/ (\E i \in 1..(Len(c_ref) - 1) :
                                    c_ref[i] = "." /\ c_ref[i + 1] = ".")
                has(t)    == t \in Range(c_ref)
                leadSlash == Len(c_ref) > 0 /\ c_ref[1] = "/"
                got       == c_types[r]
            IN  /\ relative => got = <<"FILE_PATH">>
                /\ (~relative /\ has("/") /\ leadSlash)
                      => got = <<"FILE_PATH">>
                /\ (~relative /\ has("/") /\ ~leadSlash)
                      => got = <<"FILE_PATH", "INTEGRATION">>
                /\ (~relative /\ ~has("/") /\ has(":") /\ has("."))
                      => got = <<"MODULE_CLASS", "MODULE_PACKAGE",
                                 "INTEGRATION">>
                /\ (~relative /\ ~has("/") /\ has(":") /\ ~has("."))
                      => got = <<"MODULE_CLASS", "INTEGRATION">>
                /\ (~relative /\ ~has("/") /\ ~has(":") /\ has("."))
                      => got = <<"FILE_PATH", "QUALIFIED_CLASS", "PACKAGE">>
                /\ (~relative /\ ~has("/") /\ ~has(":") /\ ~has("."))
                      => got = <<"INTEGRATION", "MODULE", "CLASS">>
                /\ "SUITE" \notin Range(got)

\* an identifier with both '/' and ':' ("a/:") was classified by the '/' rule
C1_Witness ==
    /\ c_ref = <<"a", "/", ":">>
    /\ Classified(1)
    /\ c_types[1] = <<"FILE_PATH", "INTEGRATION">>

\* ------------------------------------------------------------------------
\* the filter the class-level merge owes to class c of the input F
MergedMethods(F, c) ==
    IF \E f \in F : f.class_name = c /\ f.methods = {}
    THEN {}
    ELSE UNION {f.methods : f \in {g \in F : g.class_name = c}}

MergedFilters(F) ==
    {TestFilter(c, MergedMethods(F, c)) : c \in {f.class_name : f \in F}}

\* C2: the class-level merge holds exactly one filter per class of the
\* input; its method set is empty if some input filter of the class has an
\* empty method set, and else the union of the method sets of the class.
C2_FilterMerge ==
    (m_kind = "filters" /\ m_pc \in {"second", "done"}) =>
        /\ {f.class_name : f \in m_out} = {f.class_name : f \in m_in}
        /\ \A f \in m_out :
              /\ Cardinality({g \in m_out : g.class_name = f.class_name}) = 1
              /\ f.methods = MergedMethods(m_in, f.class_name)

\* a whole-class filter and method filters of one class were merged, and
\* so were the method filters of another class
C2_Witness ==
    /\ m_kind = "filters" /\ m_pc = "second"
    /\ m_in = {TestFilter(ClassA, {}), TestFilter(ClassA, {<<"f">>}),
               TestFilter(ClassB, {<<"g">>})}
    /\ m_out = {TestFilter(ClassA, {}), TestFilter(ClassB, {<<"g">>})}

\* ------------------------------------------------------------------------
ModulesOf(D) == {t.module_name : t \in D} \ {None}
OfModule(D, module) == {t \in D : t.module_name = module}

\* C3: whenever a descriptor of a module has no filters, the module-level
\* merge holds a single descriptor of that module, without filters,
\* whatever the others carry and in whatever order they are visited; when
\* none is without filters, the single descriptor's filters are the
\* class-level merge of the union of their filters.
C3_WholeModuleDominance ==
    (m_kind = "infos" /\ m_pc \in {"second", "done"}) =>
        \A module \in ModulesOf(m_in) :
            /\ Cardinality(OfModule(m_out, module)) = 1
            /\ \A t \in OfModule(m_out, module) :
                  t.filters =
                     IF \E u \in OfModule(m_in, module) : u.filters = {}
                     THEN {}
                     ELSE MergedFilters(
                             UNION {u.filters : u \in OfModule(m_in, module)})

\* a whole-module descriptor met two descriptors with a filter each
C3_Witness ==
    /\ m_kind = "infos" /\ m_pc = "second"
    /\ Cardinality(OfModule(m_in, <<"M">>)) = 3
    /\ \E u \in OfModule(m_in, <<"M">>) : u.filters = {}
    /\ \E t \in m_out : t.module_name = <<"M">> /\ t.filters = {}

\* ------------------------------------------------------------------------
\* C4: merging the result of a merge again changes nothing, for filter
\* sets and for descriptor sets (module-backed and integration mixed).
C4_MergeIdempotent ==
    m_pc = "done" => m_again = m_out

\* a descriptor set with module and integration descriptors, which the
\* first merge did change, was merged twice
C4_Witness ==
    /\ m_kind = "infos" /\ m_pc = "done"
    /\ m_out # m_in
    /\ \E t \in m_in : t.module_name = None
    /\ \E t \in m_in : t.module_name # None

\* ------------------------------------------------------------------------
\* translate() is at the identifier tests[idx]: trying its candidate
\* kinds, or ended on it
AtIdentifier ==
    \/ pc \in {"dispatch", "resolved", "hang"}
    \/ (pc = "error" /\ error.at = "dispatch")

ManyHashes(ref) == Count(ref, "#") > 1

\* C5: an identifier with more than one '#' fails with TooManyMethodsError
\* before any filesystem probe or index lookup is made for it, and is never
\* resolved or reported as not found.
C5_Original ==
    (AtIdentifier /\ ManyHashes(tests[idx])) =>
        /\ io = <<>>
        /\ pc \notin {"resolved", "hang"}
        /\ (pc = "error" => error.type = "TooManyMethodsError")

\* ------------------------------------------------------------------------
Bare(ref) ==
    ~Contains(ref, ".") /\ ~Contains(ref, "/") /\ ~Contains(ref, ":")

\* ref is a bare name of a module of the index that has a path and an
\* installed artifact
BareInstalled(w, ref) ==
    /\ Bare(ref)
    /\ ref \in DOMAIN w.module_info
    /\ w.module_info[ref].has_path
    /\ w.module_info[ref].path # <<>>
    /\ w.module_info[ref].installed # <<>>

\* the descriptor of the whole module ref
ModuleDescriptor(w, ref) ==
    [rel_config |-> w.module_info[ref].path[1] \o <<"/">> \o MODULE_CONFIG,
     module_name |-> ref,
     integrated_name |-> None,
     filters |-> {}]

\* some path below an integration-config root ends with name.xml
HasIntegrationFile(w, name) ==
    \E n \in 1..Len(integration_dirs(w)) :
        \E f \in Range(w.tree) :
            /\ StartsWith(f, w.root_dir \o <<"/">> \o integration_dirs(w)[n])
            /\ EndsWith(f, name \o DotXml)

\* C6 as stated: a bare name of an installed module resolves via MODULE to
\* the module's descriptor and no find search or file read is made while
\* resolving it.
C6_Original ==
    (AtIdentifier /\ BareInstalled(world, tests[idx])) =>
        /\ ~Contains(io, "find") /\ ~Contains(io, "read")
        /\ pc \notin {"error", "hang"}
        /\ (pc = "resolved" =>
               /\ found = ModuleDescriptor(world, tests[idx])
               /\ tried[Len(tried)] = "MODULE")

\* C6, amended: a bare name of an installed module, when no path below an
\* integration-config root ends with <name>.xml, resolves via MODULE, tried
\* second after INTEGRATION, to the module's descriptor; the accesses made
\* are one find search per integration-config root followed by one index
\* lookup, and no file is read.
C6_BareInstalledModule ==
    (/\ AtIdentifier
     /\ BareInstalled(world, tests[idx])
     /\ ~HasIntegrationFile(world, tests[idx])) =>
        /\ pc \notin {"error", "hang"}
        /\ (pc = "dispatch" => k <= 2)
        /\ \A n \in 1..Len(io) : io[n] \in {"find", "index"}
        /\ (pc = "resolved" =>
               /\ tried = <<"INTEGRATION", "MODULE">>
               /\ found = ModuleDescriptor(world, tests[idx])
               /\ io = [n \in 1..Len(integration_dirs(world)) |-> "find"]
                       \o <<"index">>)

\* M resolved as a module after the find search of the one integration root
C6_Witness ==
    /\ pc = "resolved"
    /\ tests[idx] = <<"M">>
    /\ BareInstalled(world, <<"M">>)
    /\ integration_dirs(world) # <<>>
    /\ found = ModuleDescriptor(world, <<"M">>)
    /\ io = <<"find", "index">>

\* ------------------------------------------------------------------------
\* the kinds ref_type_to_func_map has a strategy for
SupportedKinds ==
    {"MODULE", "CLASS", "QUALIFIED_CLASS", "MODULE_CLASS", "FILE_PATH",
     "INTEGRATION"}

\* every candidate kind of the identifier at hand was gone through
Exhausted == pc = "dispatch" /\ k > Len(types)

\* C7: when every candidate kind of an identifier was tried and none
\* resolved it, translate raises NoTestFoundError naming that identifier;
\* no descriptor is added for it, and no build targets, descriptor file or
\* run commands are produced for the request.
C7_NoTestFound ==
    /\ [](Exhausted =>
             /\ tried = SelectSeq(types, LAMBDA t : t \in SupportedKinds)
             /\ found = NoInfo)
    /\ [][Exhausted =>
             /\ pc' = "error"
             /\ error' = [type |-> "NoTestFoundError", arg |-> tests[idx],
                          at |-> "dispatch"]
             /\ test_infos' = test_infos]_vars
    /\ [](error.type = "NoTestFoundError" =>
             /\ pc = "error"
             /\ build_targets = {} /\ file = NoFile /\ result = NoResult)

\* q.Z matched no path and no class file: not found after FILE_PATH and
\* QUALIFIED_CLASS were tried and PACKAGE was skipped
C7_Witness ==
    /\ pc = "error"
    /\ error.type = "NoTestFoundError"
    /\ error.at # "mapping"
    /\ tests[idx] = <<"q", ".", "Z">>
    /\ error.arg = <<"q", ".", "Z">>
    /\ types = <<"FILE_PATH", "QUALIFIED_CLASS", "PACKAGE">>
    /\ tried = <<"FILE_PATH", "QUALIFIED_CLASS">>
    /\ ~result.returned

\* ------------------------------------------------------------------------
\* the identifiers of the form M:C#m1,...,mk
QualifiedForms ==
    { <<"M", ":", "C", "#", "f">>, <<"M", ":", "C", "#", "f", ",", "g">> }

\* M is installed and exactly one C.java, declaring package p, is below
\* M's directory
RoundTripWorld(w) ==
    /\ BareInstalled(w, <<"M">>)
    /\ Cardinality({f \in Range(w.tree) :
                       /\ StartsWith(f, w.root_dir \o <<"/">>
                                        \o w.module_info[<<"M">>].path[1]
                                        \o <<"/">>)
                       /\ EndsWith(f, <<"/", "C">> \o DotJava)}) = 1
    /\ w.package[ClassFile] = <<"p">>

\* the method names after the '#' of an identifier
MethodsOf(ref) == Range(Split(Split(ref, "#")[2], ","))

\* C8: for the one identifier M:C#m1,...,mk, M installed and one C.java
\* of package p below M's directory, translate fails nowhere and the file
\* it writes holds exactly one entry: test M, filters {p.C#m1, ..., p.C#mk}.
C8_RoundTrip ==
    (/\ pc # "idle"
     /\ Len(tests) = 1
     /\ tests[1] \in QualifiedForms
     /\ RoundTripWorld(world)) =>
        /\ pc \notin {"error", "hang"}
        /\ (file.written =>
               file.infos =
                  << [test |-> <<"M">>,
                      filters |-> {<<"p", ".", "C", "#">> \o m :
                                      m \in MethodsOf(tests[1])}] >>)

\* M:C#f,g was translated and written as p.C#f and p.C#g of M
C8_Witness ==
    /\ pc = "done"
    /\ tests = << <<"M", ":", "C", "#", "f", ",", "g">> >>
    /\ RoundTripWorld(world)
    /\ result.returned
    /\ file.infos = << [test |-> <<"M">>,
                        filters |-> {<<"p", ".", "C", "#", "f">>,
                                     <<"p", ".", "C", "#", "g">>}] >>

\* ------------------------------------------------------------------------
\* the unit a descriptor selects: its module, or its integration config
\* when it has no module
UnitKey(d) ==
    IF d.module_name # None
    THEN <<"module", d.module_name>>
    ELSE <<"integration", d.integrated_name>>

Merged == pc \in {"targets", "write", "command", "done"}

\* C9: after the merge step no two descriptors select the same unit: no
\* two have the same module_name, and no two without a module have the
\* same integration name.
C9_Original ==
    Merged => \A a, b \in test_infos : UnitKey(a) = UnitKey(b) => a = b

\* ------------------------------------------------------------------------
\* the ways the strategy of the n-th candidate kind of the identifier at
\* hand can end, over what raw_input may answer
Outcomes(n) ==
    {ref_type_to_func_map(world, types[n], tests[idx], a, b) :
        a \in Answers, b \in Answers}

\* the n-th candidate kind has a strategy and it returns a descriptor
WouldResolve(n) ==
    /\ types[n] \in SupportedKinds
    /\ \A a \in Answers, b \in Answers :
          ref_type_to_func_map(world, types[n], tests[idx], a, b).kind
              = "info"

\* the n-th candidate kind has no strategy, or its strategy returns None
FindsNothing(n) ==
    \/ types[n] \notin SupportedKinds
    \/ \A a \in Answers, b \in Answers :
          ref_type_to_func_map(world, types[n], tests[idx], a, b).kind
              = "none"

\* C11: for each identifier the dispatcher goes through the kinds in the
\* order of the classifier's list, one turn per kind, and stops at the
\* first strategy that returns a descriptor: no turn follows a success,
\* no strategy before the one that succeeded returns a descriptor, and the
\* descriptor returned is the one of the strategy that succeeded.
C11_DispatchOrder ==
    AtIdentifier =>
        /\ Len(log) <= Len(types)
        /\ \A n \in 1..Len(log) : log[n].kind = types[n]
        /\ \A n \in 1..(Len(log) - 1) :
              /\ log[n].outcome # "info"
              /\ ~WouldResolve(n)
        /\ (pc = "dispatch" => k = Len(log) + 1)
        /\ (pc = "resolved" =>
               /\ log # <<>>
               /\ log[Len(log)].outcome = "info"
               /\ found \in {r.info : r \in Outcomes(Len(log))})

\* i resolved as an integration config at the first turn; the module
\* strategy, next in the list, would have returned a descriptor too
C11_Witness ==
    /\ pc = "resolved"
    /\ tests[idx] = <<"i">>
    /\ types = <<"INTEGRATION", "MODULE", "CLASS">>
    /\ log = << [kind |-> "INTEGRATION", outcome |-> "info"] >>
    /\ found.integrated_name = <<"i">>
    /\ _find_test_by_module_name(world, <<"i">>).kind = "info"

\* ------------------------------------------------------------------------
\* C12 as stated: if some strategy of the identifier's candidate list
\* would return a descriptor, resolution of the identifier returns a
\* descriptor.
C12_Original ==
    (AtIdentifier /\ \E n \in 1..Len(types) : WouldResolve(n)) =>
        /\ pc \notin {"error", "hang"}
        /\ ~Exhausted

\* C12, amended: if a strategy of the candidate list would return a
\* descriptor and every candidate before it finds nothing (returns None
\* or has no strategy), resolution of the identifier returns that
\* strategy's descriptor: a candidate that finds nothing never keeps a
\* later one from being attempted.
C12_LaterCandidatesTried ==
    AtIdentifier =>
        \A n \in 1..Len(types) :
            \/ /\ pc \notin {"error", "hang"}
               /\ ~Exhausted
               /\ (pc = "dispatch" => k <= n)
               /\ (pc = "resolved" =>
                      /\ Len(log) = n
                      /\ found \in {r.info : r \in Outcomes(n)})
            \/ ~WouldResolve(n)
            \/ \E j \in 1..(n - 1) : ~FindsNothing(j)

\* i:p.C#f resolved by INTEGRATION, third in its list, after MODULE_CLASS
\* found nothing and MODULE_PACKAGE was skipped
C12_Witness ==
    /\ pc = "resolved"
    /\ tests[idx] = <<"i", ":", "p", ".", "C", "#", "f">>
    /\ log = << [kind |-> "MODULE_CLASS", outcome |-> "none"],
                [kind |-> "MODULE_PACKAGE", outcome |-> "unsupported"],
                [kind |-> "INTEGRATION", outcome |-> "info"] >>
    /\ found.integrated_name = <<"i">>

\* ------------------------------------------------------------------------
\* C18: a candidate kind is logged as unsupported and skipped exactly when
\* it has no registered strategy (PACKAGE, MODULE_PACKAGE, SUITE); the skip
\* raises nothing and the next candidate of the list is attempted.
C18_Original ==
    AtIdentifier =>
        /\ \A n \in 1..Len(log) :
              log[n].outcome = "unsupported" <=>
                  log[n].kind \notin SupportedKinds
        /\ \A n \in 1..Len(log) :
              log[n].outcome = "unsupported" =>
                  \/ n = Len(types)
                  \/ Len(log) > n
                  \/ (pc = "dispatch" /\ k = n + 1)

\* ------------------------------------------------------------------------
\* C10: the classification of an identifier is the same list in two runs
\* that differ in filesystem and module index, and classifying makes no
\* filesystem or index access.
C10_ClassifyPure ==
    /\ (Classified(1) /\ Classified(2)) => c_types[1] = c_types[2]
    /\ \A r \in {1, 2} : c_io[r] = <<>>

\* the identifier "a" was classified in two different environments
C10_Witness ==
    /\ c_ref = <<"a">>
    /\ c_self[1] # c_self[2]
    /\ integration_dirs(c_self[1]) # integration_dirs(c_self[2])
    /\ Classified(1) /\ Classified(2)

\* the method was called and has ended
Called(name) == f_name = name /\ f_pc = "done"

\* ------------------------------------------------------------------------
\* Directories as the claims speak of them
\* ------------------------------------------------------------------------
\* dir is parent or lies below it
InsideOf(dir, parent) ==
    dir = parent \/ parent = <<"/">> \/ StartsWith(dir, parent \o <<"/">>)

\* the directories from dir upward, strictly below the root, that hold a
\* module config
ModuleDirsAbove(w, dir) ==
    {d \in w.dirs :
        /\ InsideOf(dir, d)
        /\ InsideOf(d, w.root_dir) /\ d # w.root_dir
        /\ IsFile(w, PathJoin(d, MODULE_CONFIG))}

\* the nearest of them
NearestModuleDir(w, dir) ==
    CHOOSE d \in ModuleDirsAbove(w, dir) :
        \A e \in ModuleDirsAbove(w, dir) : Len(e) <= Len(d)

\* rel is the path of an installed module of the index
InstalledAt(w, rel) ==
    \E n \in DOMAIN w.module_info :
        /\ w.module_info[n].has_path
        /\ w.module_info[n].path # <<>>
        /\ w.module_info[n].path[1] = rel
        /\ w.module_info[n].installed # <<>>

\* ------------------------------------------------------------------------
\* C13: for a start directory that passes the containment check,
\* _find_parent_module_dir ends: it returns the nearest directory, from the
\* start directory upward and strictly below the repository root, that
\* holds a module config, or raises TestWithNoModuleError when there is
\* none up to the repository root.
C13_Original ==
    (/\ Called("_find_parent_module_dir")
     /\ _is_equal_or_sub_dir(f_self, f_args.arg, f_self.root_dir)) =>
        /\ f_ret.kind \in {"dir", "raise"}
        /\ IF ModuleDirsAbove(f_self, f_args.arg) = {}
           THEN f_ret.kind = "raise" /\ f_ret.error = "TestWithNoModuleError"
           ELSE /\ f_ret.kind = "dir"
                /\ PathJoin(f_self.root_dir, f_ret.dir)
                       = NearestModuleDir(f_self, f_args.arg)

\* ------------------------------------------------------------------------
\* C14: the file a CLASS, QUALIFIED_CLASS or FILE_PATH resolution is at:
\* the class file chosen, or the path given when it exists in the
\* repository and outside the integration roots
FileAtHand ==
    IF f_name = "_find_test_by_class_name"
    THEN _find_class_file(f_self, _split_methods(f_args.arg).ref,
                          f_self.root_dir, f_args.answer_class)
    ELSE LET path == Realpath(f_self.cwd, f_args.arg)
             dirs == integration_dirs(f_self)
         IN  IF /\ Exists(f_self, path)
                /\ InsideOf(path, f_self.root_dir)
                /\ \A n \in 1..Len(dirs) :
                      ~InsideOf(path, PathJoin(f_self.root_dir, dirs[n]))
             THEN [kind |-> "path", path |-> path]
             ELSE [kind |-> "none", path |-> None]

DirAtHand ==
    IF IsFile(f_self, FileAtHand.path) THEN Dirname(FileAtHand.path)
    ELSE FileAtHand.path

NoPackage ==
    /\ IsFile(f_self, FileAtHand.path)
    /\ EndsWith(FileAtHand.path, DotJava)
    /\ f_self.package[FileAtHand.path] = None

NoModuleDir == ModuleDirsAbove(f_self, DirAtHand) = {}

Unregistered ==
    /\ ~NoModuleDir
    /\ ~InstalledAt(f_self,
                    Relpath(NearestModuleDir(f_self, DirAtHand),
                            f_self.root_dir))

\* the error the claim names for the first inconsistency the method meets
\* (the class strategy reads the package before it walks upward, the path
\* strategy after the module lookup); "" when there is none
ExpectedError ==
    IF f_name = "_find_test_by_class_name"
    THEN IF NoPackage THEN "MissingPackageNameError"
         ELSE IF NoModuleDir THEN "TestWithNoModuleError"
         ELSE IF Unregistered THEN "UnregisteredModuleError"
         ELSE ""
    ELSE IF NoModuleDir THEN "TestWithNoModuleError"
         ELSE IF Unregistered THEN "UnregisteredModuleError"
         ELSE IF NoPackage THEN "MissingPackageNameError"
         ELSE ""

\* C14: a class file without a package line raises
\* MissingPackageNameError, a file without a module config between it and
\* the repository root raises TestWithNoModuleError, and a module
\* directory that is not the path of an installed module raises
\* UnregisteredModuleError, whatever the module index holds; the strategy
\* never returns None for them.
C14_Original ==
    (/\ Called("_find_test_by_class_name") \/ Called("_find_test_by_path")
     /\ FileAtHand.kind = "path"
     /\ ExpectedError # "") =>
        /\ f_ret.kind = "raise"
        /\ f_ret.error = ExpectedError

\* ------------------------------------------------------------------------
\* C15: the integration strategy's loop over the roots
\* ------------------------------------------------------------------------
\* the name asked for, and the filters the strategy has when it enters
\* the loop (the class of "name:class" is looked up before the loop; the
\* calls taken here give none or a qualified one)
IntName == IF Contains(f_args.arg, ":") THEN Split(f_args.arg, ":")[1]
           ELSE f_args.arg

IntFilters ==
    IF Contains(f_args.arg, ":")
    THEN LET sm == _split_methods(Split(f_args.arg, ":")[2])
         IN  {TestFilter(sm.ref, sm.methods)}
    ELSE {}

EntersLoop ==
    \/ ~Contains(f_args.arg, ":")
    \/ Contains(Split(f_args.arg, ":")[2], ".")

\* what the probe of the n-th root yields
RootMatches(n) ==
    FindWholename(f_self,
                  PathJoin(f_self.root_dir, integration_dirs(f_self)[n]),
                  IntName \o DotXml)

MatchingRoots ==
    {n \in 1..Len(integration_dirs(f_self)) : RootMatches(n) # <<>>}

FirstMatchingRoot ==
    CHOOSE n \in MatchingRoots : \A j \in MatchingRoots : n <= j

\* the match of the first matching root the strategy goes on with
Decider == _extract_test_path(RootMatches(FirstMatchingRoot),
                              f_args.answer_int)

\* C15: the roots are probed in the order of integration_dirs up to the
\* first one whose probe yields a match, and that match decides: the
\* descriptor of the matched file when the name derived from its path is
\* the name asked for, None when it is not; no root after it is probed.
\* When no root yields a match every root was probed and the result is
\* None.
C15_FirstRootDecides ==
    (Called("_find_test_by_integration_name") /\ EntersLoop) =>
        IF MatchingRoots = {}
        THEN /\ f_ret.kind = "none"
             /\ Count(f_ret.io, "find") = Len(integration_dirs(f_self))
        ELSE /\ Count(f_ret.io, "find") = FirstMatchingRoot
             /\ Decider.kind = "path" =>
                   IF /\ INT_NAME_RE_match(Decider.path).ok
                      /\ INT_NAME_RE_match(Decider.path).int_name = IntName
                   THEN /\ f_ret.kind = "info"
                        /\ f_ret.info =
                              TestInfo(Relpath(Decider.path,
                                               f_self.root_dir),
                                       None, IntName, IntFilters)
                   ELSE f_ret.kind = "none"

\* i was asked for; the first root has other/i.xml only, the second root
\* has res/config/i.xml: the result is None after one probe
C15_Witness ==
    /\ Called("_find_test_by_integration_name")
    /\ f_args.arg = <<"i">>
    /\ Len(integration_dirs(f_self)) = 2
    /\ RootMatches(1) = <<Repo.intOther>>
    /\ RootMatches(2) = <<Repo.gtfInt>>
    /\ f_ret.kind = "none"
    /\ Count(f_ret.io, "find") = 1

\* ------------------------------------------------------------------------
\* C16: the path strategy's two branches
\* ------------------------------------------------------------------------
GivenPath == Realpath(f_self.cwd, _split_methods(f_args.arg).ref)

GivenDir == IF IsFile(f_self, GivenPath) THEN Dirname(GivenPath)
            ELSE GivenPath

\* the directory of the path is an integration-config root or lies
\* inside one
InIntegrationRoot ==
    \E n \in 1..Len(integration_dirs(f_self)) :
        InsideOf(GivenDir,
                 PathJoin(f_self.root_dir, integration_dirs(f_self)[n]))

\* what the integration branch gives: None for a directory and for a file
\* outside a config dir, else the module-less descriptor of the file
IntegrationBranch ==
    IF IsFile(f_self, GivenPath)
       /\ INT_NAME_RE_match(Relpath(GivenPath, f_self.root_dir)).ok
    THEN /\ f_ret.kind = "info"
         /\ f_ret.info =
               TestInfo(Relpath(GivenPath, f_self.root_dir), None,
                        INT_NAME_RE_match(
                            Relpath(GivenPath, f_self.root_dir)).int_name,
                        {})
    ELSE f_ret.kind = "none"

\* what the module branch gives: never None; a descriptor it returns has
\* the module of the nearest module directory, with a class filter for a
\* class source file and without filters for anything else
ModuleBranch ==
    /\ f_ret.kind # "none"
    /\ f_ret.kind = "info" =>
          /\ f_ret.info.module_name # None
          /\ f_ret.info.integrated_name = None
          /\ f_ret.info.rel_config
                = PathJoin(Relpath(NearestModuleDir(f_self, GivenDir),
                                   f_self.root_dir),
                           MODULE_CONFIG)
          /\ IF IsFile(f_self, GivenPath) /\ EndsWith(GivenPath, DotJava)
             THEN \E c \in f_ret.info.filters : f_ret.info.filters = {c}
             ELSE f_ret.info.filters = {}

\* C16: an existing path is resolved in the integration branch exactly
\* when its directory is an integration-config root or inside one, and in
\* the module branch otherwise.
C16_Original ==
    (Called("_find_test_by_path") /\ Exists(f_self, GivenPath)) =>
        IF InIntegrationRoot THEN IntegrationBranch ELSE ModuleBranch

\* ------------------------------------------------------------------------
\* C17: test-mapping discovery
\* ------------------------------------------------------------------------
HasMapping(w, d) == d \in DOMAIN w.test_mapping

\* the TEST_MAPPING of d is flagged to include the ancestors
Flagged(w, d) ==
    /\ HasMapping(w, d)
    /\ "include_parent" \in w.test_mapping[d].keys
    /\ w.test_mapping[d].include_parent

\* the directories the claim has the search visit, from d upward: the
\* search goes on from a directory to its parent exactly when the
\* directory has no TEST_MAPPING or a flagged one, and ends at the
\* repository root
RECURSIVE ClaimedVisits(_, _)
ClaimedVisits(w, d) ==
    IF d = w.root_dir \/ d = <<"/">> THEN <<>>
    ELSE IF ~HasMapping(w, d) \/ Flagged(w, d)
    THEN <<d>> \o ClaimedVisits(w, Dirname(d))
    ELSE <<d>>

\* the descriptors of the names the TEST_MAPPING of d lists
DescriptorsAt(w, d) ==
    IF HasMapping(w, d)
    THEN PresubmitLoop(w, Presubmit(w.test_mapping[d]), {},
                       f_args.answer_class, f_args.answer_int).tests
    ELSE {}

\* C17: the search visits the directories from the working directory
\* upward, goes on to the parent exactly from a directory without
\* TEST_MAPPING or with a flagged one, ends at the repository root, raises
\* nothing, and returns the descriptors of the directories it visited
\* (None or the empty set when there are none).
C17_Original ==
    Called("_find_tests_by_test_mapping") =>
        /\ f_ret.kind \in {"none", "tests"}
        /\ f_ret.visited = ClaimedVisits(f_self, f_self.cwd)
        /\ f_ret.tests =
              UNION {DescriptorsAt(f_self, f_ret.visited[n]) :
                        n \in 1..Len(f_ret.visited)}

\* ------------------------------------------------------------------------
\* C19: more than one match
\* ------------------------------------------------------------------------
\* the files the class probe of the class strategy yields
ClassMatches ==
    LET ref == _split_methods(f_args.arg).ref
    IN  IF Contains(ref, ".")
        THEN FindWholename(f_self, f_self.root_dir,
                           Replace(ref, ".", "/") \o DotJava)
        ELSE FindClass(f_self, f_self.root_dir, ref)

\* a call went on with the file at place j of the list out: with more
\* than one file the number given was asked for and is j counted from 0,
\* or, when negative, counted from the end of the list as Python does
ChosenAt(out, answer, accesses, j) ==
    /\ j \in 1..Len(out)
    /\ Len(out) > 1 =>
          /\ Contains(accesses, "prompt")
          /\ answer >= 0 => j = answer + 1
          /\ answer < 0 => j = Len(out) + answer + 1

\* C19: with more than one match raw_input is asked, the call goes on
\* with the listed file at the number given and with no other, and a
\* number outside the list raises; with one match nothing is asked and
\* the match is taken; without a match the result is None.  The class
\* strategy and the integration strategy build their descriptor from the
\* file so chosen.
C19_AmbiguityAsksOutside ==
    /\ Called("_extract_test_path") =>
          LET out == f_args.output
          IN  /\ out = <<>> => f_ret.kind = "none" /\ f_ret.io = <<>>
              /\ Len(out) = 1 =>
                    f_ret.kind = "path" /\ f_ret.path = out[1]
                    /\ f_ret.io = <<>>
              /\ Len(out) > 1 =>
                    /\ f_ret.io = <<"prompt">>
                    /\ f_ret.kind \in {"path", "raise"}
                    /\ f_ret.kind = "path" =>
                          \E j \in 1..Len(out) :
                              /\ f_ret.path = out[j]
                              /\ ChosenAt(out, f_args.answer_class,
                                          f_ret.io, j)
    /\ Called("_find_test_by_class_name") =>
          /\ Contains(f_ret.io, "prompt") <=> Len(ClassMatches) > 1
          /\ ClassMatches = <<>> => f_ret.kind = "none"
          /\ f_ret.kind = "info" =>
                \E j \in 1..Len(ClassMatches) :
                    /\ ChosenAt(ClassMatches, f_args.answer_class,
                                f_ret.io, j)
                    /\ \E c \in f_ret.info.filters :
                          c.class_name =
                              f_self.package[ClassMatches[j]]
                              \o <<".">>
                              \o SplitextRoot(
                                     PathSplit(ClassMatches[j])[2])
    /\ (Called("_find_test_by_integration_name") /\ EntersLoop
        /\ MatchingRoots # {}) =>
          /\ Contains(f_ret.io, "prompt")
                <=> Len(RootMatches(FirstMatchingRoot)) > 1
          /\ f_ret.kind = "info" =>
                \E j \in 1..Len(RootMatches(FirstMatchingRoot)) :
                    /\ ChosenAt(RootMatches(FirstMatchingRoot),
                                f_args.answer_int, f_ret.io, j)
                    /\ f_ret.info.rel_config =
                          Relpath(RootMatches(FirstMatchingRoot)[j],
                                  f_self.root_dir)

\* C was asked for, p/C.java and q/C.java were listed, the number given
\* was 1 and the descriptor is the one of q.C
C19_Witness ==
    /\ Called("_find_test_by_class_name")
    /\ f_args.arg = <<"C">>
    /\ ClassMatches = <<ClassFile, Repo.classQ>>
    /\ f_args.answer_class = 1
    /\ f_ret.kind = "info"
    /\ Contains(f_ret.io, "prompt")
    /\ f_ret.info.filters = {TestFilter(<<"q", ".", "C">>, {})}

\* ------------------------------------------------------------------------
\* C20: the targets of a config file
\* ------------------------------------------------------------------------
\* the candidates of an option: the file name of a package without
\* ".apk", the value of test-module-name, the perf-setup helper
Candidates(option) ==
    IF APK_RE_match(option.value)
    THEN {SubSeq(option.value, 1, Len(option.value) - Len(DotApk))}
    ELSE IF option.name = TEST_MODULE_NAME THEN {option.value}
    ELSE IF ContainsSeq(option.value, PERF_SETUP_LABEL)
    THEN {PERF_SETUP_LABEL}
    ELSE {}

ScannedOptions == f_self.options[f_args.arg]

AllCandidates ==
    UNION {Candidates(ScannedOptions[n]) : n \in 1..Len(ScannedOptions)}

\* C20: the targets _get_targets_from_xml returns are the candidates of
\* the file's options that are keys of the module index: none that is not
\* in the index, and every one that is, in whatever order the options
\* come.
C20_TargetsInIndex ==
    Called("_get_targets_from_xml") =>
        /\ f_ret.ok
        /\ f_ret.targets \subseteq DOMAIN f_self.module_info
        /\ f_ret.targets = AllCandidates \cap DOMAIN f_self.module_info

\* Z.apk (not in the index), an option without candidate, then M.apk:
\* the targets are M alone
C20_Witness ==
    /\ Called("_get_targets_from_xml")
    /\ ScannedOptions =
          << [name |-> <<"apk">>, value |-> <<"Z", ".", "apk">>],
             [name |-> <<"v">>, value |-> <<"w">>],
             [name |-> <<"apk">>, value |-> <<"M", ".", "apk">>] >>
    /\ f_ret.targets = {<<"M">>}

\* ------------------------------------------------------------------------
\* the modules of the index loaded whose 'path' list holds the path p
Listing(p) ==
    {n \in DOMAIN f_self.name_to_module_info.info :
        LET e == f_self.name_to_module_info.info[n]
        IN  e.has_path /\ p \in Range(e.path)}

\* those of them with a non-empty 'installed' list
InstalledListing(p) ==
    {n \in Listing(p) : f_self.name_to_module_info.info[n].installed # <<>>}

\* the modules the path dict holds under p
MappedUnder(p) ==
    IF p \in DOMAIN f_self.path_to_module_info
    THEN {mod.module_name : mod \in Range(f_self.path_to_module_info[p])}
    ELSE {}

NamedMethods(ref) ==
    IF Contains(ref, "#")
    THEN Range(Split(Split(ref, "#")[2], ",")) \ {<<>>}
    ELSE {}

\* C22 as stated, for the filters of the descriptor the class strategy
\* returns: the filter's class is that of the text before '#', its
\* method set holds the names given after '#' and is empty exactly when
\* the identifier names no method, every method name is a non-empty
\* string, and every serialized filter string is the bare class name or
\* 'Class#method' with a non-empty method.
C22_Original ==
    (Called("_find_test_by_class_name") /\ f_ret.kind = "info") =>
        \A flt \in f_ret.info.filters :
            /\ EndsWith(flt.class_name, Split(f_args.arg, "#")[1])
            /\ NamedMethods(f_args.arg) \subseteq flt.methods
            /\ (flt.methods = {} <=> NamedMethods(f_args.arg) = {})
            /\ \A m \in flt.methods : m # <<>>
            /\ \A str \in to_set_of_tf_strings(flt) :
                   \/ str = flt.class_name
                   \/ \E m \in flt.methods :
                         m # <<>> /\ str = flt.class_name \o <<"#">> \o m

\* ------------------------------------------------------------------------
\* a descriptor of a module: MODULE, CLASS, QUALIFIED_CLASS, MODULE_CLASS
\* and FILE_PATH outside the integration roots return one
ModuleBacked(t) == t.module_name # None

\* the module of the descriptor is in the index with a non-empty
\* 'installed', and the descriptor's config path is the first 'path' of
\* the module joined with AndroidTest.xml
WellBacked(t) ==
    /\ t.module_name \in DOMAIN world.module_info
    /\ world.module_info[t.module_name].installed # <<>>
    /\ world.module_info[t.module_name].has_path
    /\ world.module_info[t.module_name].path # <<>>
    /\ t.rel_config =
           PathJoin(world.module_info[t.module_name].path[1], MODULE_CONFIG)

====
